---- MODULE Spec2Model ----
(***************************************************************************)
(* The virtual-console manager of magenta (the gfxconsole driver): the     *)
(* registry of console instances, the active-console state machine, the    *)
(* per-console keystroke FIFO, the keyboard input thread and the device    *)
(* entry points, as a set of threads that run the driver's functions one   *)
(* lock-delimited step at a time.                                          *)
(***************************************************************************)
EXTENDS Integers, Sequences, FiniteSets, TLC

\* ------------------------------------------------------------------ bounds
\* Console instances ever allocated by vc_root_open.
MaxVC == 3
\* Caller threads that run the device entry points concurrently.
NThreads == 2

\* ------------------------------------------------------- program constants
NULL == 0
\* What list_for_every_entry leaves in its cursor when the scan runs off the
\* end of the list: containerof(&g_vc_list, vc_device_t, node), a pointer to
\* no vc_device_t at all.
HEAD == -1
NO_ERROR == 0
ERR_INVALID_ARGS == -10
ERR_NO_MEMORY == -4
\* The largest unsigned value, which 0 - 1 wraps to. TLC's integers end at
\* 2^31 - 1, which stands here for 2^32 - 1: both exceed every count and index
\* the registry can hold, and the code only compares and stores the value.
UINT_MAX == 2147483647

VC == 1..MaxVC
Threads == 1..NThreads
\* th[t].rend when the running call has rendered nothing.
NoRender == -2

VARIABLES
    g_vc_list,          \* the registry list, in registration order
    g_vc_count,
    g_active_vc,        \* an instance, NULL or HEAD
    g_active_vc_index,
    g_battery_info,     \* the shared battery status: state and pct
    invy0, invy1,       \* per instance: the rows changed by the write batch
    g_vc_lock,          \* the thread holding g_vc_lock, or 0
    st,                 \* per instance: "none", "opening", "open", "closing", "freed"
    active,             \* per instance: vc->active
    flags,              \* per instance: vc->flags, a subset of the VC_FLAG_ names
    vc_lock,            \* per instance: the thread holding vc->lock, or 0
    fifo_lock,          \* per instance: the thread holding vc->fifo.lock, or 0
    fifo,               \* per instance: the bytes queued in vc->fifo
    readable,           \* per instance: DEV_STATE_READABLE of vc->device
    th,                 \* per thread: program counter and locals
    ub                  \* "none", or the undefined behaviour that has happened:
                        \* "wild" (an access through a pointer to no live instance),
                        \* "race" (a FIFO touched while another thread is inside its
                        \* critical section), "unlock" (a mutex unlocked by a
                        \* thread that does not hold it)

vars == <<g_vc_list, g_vc_count, g_active_vc, g_active_vc_index, g_battery_info,
          invy0, invy1, g_vc_lock, st, active, flags, vc_lock, fifo_lock, fifo, readable, th, ub>>

reg == <<g_vc_list, g_vc_count, g_active_vc, g_active_vc_index>>
io == <<vc_lock, fifo_lock, fifo, readable>>

Live(v) == v \in VC /\ st[v] \in {"opening", "open", "closing"}

\* act0 and idx0 are history: whether the instance a release unlinked was the
\* active one, and g_active_vc_index before that release touched it.
\* key, mods: the arguments of vc_handle_key_press; lk: the instance whose
\* FIFO lock the thread took; act: what vc_handle_control_keys did; out: the
\* bytes hid_key_to_ansi_code gave; n: the count argument of read and write;
\* kcont: where vc_handle_key_press returns to; kb: the locals of
\* vc_input_thread.
MX_TIME_INFINITE == -1
\* A buffer nothing was stored in yet.
Uninit == <<>>

\* The locals of vc_input_thread as lines 212-225 leave them. key_delta,
\* want (key_pressed and key_released were passed) and pcont (where
\* vc_process_kb_report returns to) belong to vc_process_kb_report.
KbLocals == [key_state |-> <<{}, {}>>, cur_idx |-> 0, prev_idx |-> 1,
             modifiers |-> {}, repeat_interval |-> MX_TIME_INFINITE,
             repeat_enabled |-> TRUE,
             report_buf |-> Uninit, previous_report_buf |-> Uninit,
             key_pressed |-> {}, key_released |-> {},
             key_delta |-> {}, want |-> FALSE, pcont |-> "idle"]

\* vc_device_rows(vc): the number of text rows of a console.
vc_device_rows == 2

\* line 57: g_battery_info is a static object, so it starts as all zero bits:
\* the first member of the state enumeration and pct 0.
NoBatteryInfo == [state |-> "UNKNOWN", pct |-> 0]

IdleThread == [pc |-> "idle", op |-> "none", dev |-> NULL, console |-> 0,
               cont |-> "idle", ret |-> NO_ERROR, rend |-> NoRender,
               act0 |-> FALSE, idx0 |-> 0, n |-> 0,
               key |-> 0, mods |-> {}, lk |-> NULL, act |-> "none", out |-> <<>>,
               kcont |-> "idle", kb |-> KbLocals,
               str |-> <<>>, info |-> NoBatteryInfo, device |-> NULL,
               fd |-> "none", rc |-> 0, proto |-> "INPUT_PROTO_NONE",
               thrd |-> "uninitialised"]

Init ==
    /\ g_vc_list = <<>>
    /\ g_vc_count = 0
    /\ g_active_vc = NULL
    /\ g_active_vc_index = 0
    /\ g_battery_info = NoBatteryInfo
    /\ invy0 = [v \in VC |-> vc_device_rows + 1]
    /\ invy1 = [v \in VC |-> -1]
    /\ g_vc_lock = 0
    /\ st = [v \in VC |-> "none"]
    /\ active = [v \in VC |-> FALSE]
    /\ flags = [v \in VC |-> {}]
    /\ vc_lock = [v \in VC |-> 0]
    /\ fifo_lock = [v \in VC |-> 0]
    /\ fifo = [v \in VC |-> <<>>]
    /\ readable = [v \in VC |-> FALSE]
    /\ th = [t \in Threads |-> IdleThread]
    /\ ub = "none"

\* ----------------------------------------------------------------- helpers
\* mtx_lock(&g_vc_lock): blocks while another thread holds it.
LockRegistry(t) == g_vc_lock = 0 /\ g_vc_lock' = t
UnlockRegistry(t) == g_vc_lock' = 0

\* Position (from 0) of dev in the list, or the list's length when absent:
\* the value of i after the scan of vc_set_console_to_active.
IndexOf(list, dev) ==
    IF \E k \in 1..Len(list) : list[k] = dev
    THEN (CHOOSE k \in 1..Len(list) : list[k] = dev) - 1
    ELSE Len(list)

\* The cursor after "list_for_every_entry { if (i == console) break; i++; }".
EntryAt(list, console) ==
    IF console < Len(list) THEN list[console + 1] ELSE HEAD

\* n - 1 and n + 1 on an unsigned.
USub1(n) == IF n = 0 THEN UINT_MAX ELSE n - 1
UAdd1(n) == IF n = UINT_MAX THEN 0 ELSE n + 1

RemoveFrom(list, dev) == SelectSeq(list, LAMBDA x : x # dev)

\* A device call on dev is in progress in some thread.
InFlight(dev) == \E t \in Threads : th[t].pc # "idle" /\ th[t].dev = dev

\* Thread t is at pc. Once undefined behaviour has happened the model says
\* nothing more: no thread takes a step from there.
At(t, pc) == ub = "none" /\ th[t].pc = pc

\* The step dereferences pointer p.
Deref(p) == ub' = IF Live(p) THEN ub ELSE "wild"

\* The call of thread t is over: its result stays readable in th[t] until the
\* thread goes back to idle.
Done(t, ret) == [th EXCEPT ![t].pc = "done", ![t].ret = ret]

\* Control goes to pc "to"; reaching "done" records the return value, a call
\* with no return value goes straight back to "idle".
Goto(t, to, ret) ==
    IF to = "done" THEN Done(t, ret)
    ELSE IF to = "idle" THEN [th EXCEPT ![t] = IdleThread]
    ELSE [th EXCEPT ![t].pc = to]

Return(t) ==
    /\ At(t, "done")
    /\ th' = [th EXCEPT ![t] = IdleThread]
    /\ UNCHANGED <<g_battery_info, invy0, invy1, reg, g_vc_lock, st, active, flags, io, ub>>

\* __vc_set_active that forgets to deactivate the instance that was active.
__vc_set_active_KeepsOld(dev, index) ==
    /\ active' = [active EXCEPT ![dev] = TRUE]
    /\ g_active_vc' = dev
    /\ flags' = [v \in VC |-> IF v = dev THEN flags[v] \ {"HASINPUT"} ELSE flags[v]]
    /\ g_active_vc_index' = index
    /\ ub' = IF ~Live(dev) THEN "wild" ELSE ub

\* __vc_set_active(dev, index), called with g_vc_lock held (lines 331-339).
__vc_set_active(dev, index) ==
    /\ active' = [v \in VC |->
                    IF v = dev THEN TRUE
                    ELSE IF v = g_active_vc THEN FALSE
                    ELSE active[v]]
    /\ g_active_vc' = dev
    /\ flags' = [v \in VC |-> IF v = dev THEN flags[v] \ {"HASINPUT"} ELSE flags[v]]
    /\ g_active_vc_index' = index
    /\ ub' = IF ~Live(dev) \/ (g_active_vc # NULL /\ ~Live(g_active_vc))
             THEN "wild" ELSE ub

\* vc_device_render(g_active_vc): the argument is read with no lock held.
Render(t, to, ret) ==
    /\ th' = [Goto(t, to, ret) EXCEPT ![t].rend = g_active_vc]
    /\ Deref(g_active_vc)

\* --------------------------------------------------- vc_set_active_console
vc_set_active_console_call(t, console) ==
    /\ At(t, "idle")
    /\ th' = [th EXCEPT ![t].pc = "sac_check", ![t].op = "set_active_console",
                        ![t].console = console, ![t].cont = "done"]
    /\ UNCHANGED <<g_battery_info, invy0, invy1, reg, g_vc_lock, st, active, flags, io, ub>>

\* line 364: the bound check reads g_vc_count before the lock is taken.
vc_set_active_console_check(t) ==
    /\ At(t, "sac_check")
    /\ IF th[t].console >= g_vc_count
       THEN th' = Goto(t, th[t].cont, ERR_INVALID_ARGS)
       ELSE th' = [th EXCEPT ![t].pc = "sac_lock"]
    /\ UNCHANGED <<g_battery_info, invy0, invy1, reg, g_vc_lock, st, active, flags, io, ub>>

vc_set_active_console_lock(t) ==
    /\ At(t, "sac_lock")
    /\ LockRegistry(t)
    /\ th' = [th EXCEPT ![t].pc = "sac_body"]
    /\ UNCHANGED <<g_battery_info, invy0, invy1, reg, st, active, flags, io, ub>>

\* lines 370-380: the scan, the already-active test, __vc_set_active, unlock.
vc_set_active_console_body(t) ==
    /\ At(t, "sac_body")
    /\ LET device == EntryAt(g_vc_list, th[t].console) IN
       IF device = g_active_vc
       THEN /\ th' = Goto(t, th[t].cont, NO_ERROR)
            /\ UNCHANGED <<g_battery_info, invy0, invy1, g_active_vc, g_active_vc_index, active, flags, ub>>
       ELSE /\ __vc_set_active(device, th[t].console)
            /\ th' = [th EXCEPT ![t].pc = "sac_render", ![t].device = device]
    /\ UnlockRegistry(t)
    /\ UNCHANGED <<g_battery_info, invy0, invy1, g_vc_list, g_vc_count, st, io>>

\* lines 381-382
vc_set_active_console_render(t) ==
    /\ At(t, "sac_render")
    /\ Render(t, th[t].cont, NO_ERROR)
    /\ UNCHANGED <<g_battery_info, invy0, invy1, reg, g_vc_lock, st, active, flags, io>>

\* ------------------------------------------------ vc_set_console_to_active
\* lines 341-343
vc_set_console_to_active_call(t, dev) ==
    /\ At(t, "idle")
    /\ LET c == [th EXCEPT ![t].op = "set_console_to_active", ![t].dev = dev] IN
       IF dev = NULL
       THEN th' = [c EXCEPT ![t].pc = "done", ![t].ret = ERR_INVALID_ARGS]
       ELSE th' = [c EXCEPT ![t].pc = "sca_lock"]
    /\ UNCHANGED <<g_battery_info, invy0, invy1, reg, g_vc_lock, st, active, flags, io, ub>>

vc_set_console_to_active_lock(t) ==
    /\ At(t, "sca_lock")
    /\ LockRegistry(t)
    /\ th' = [th EXCEPT ![t].pc = "sca_body"]
    /\ UNCHANGED <<g_battery_info, invy0, invy1, reg, st, active, flags, io, ub>>

\* vc_set_console_to_active that goes on to render with g_vc_lock still held.
vc_set_console_to_active_body_KeepsLock(t) ==
    /\ At(t, "sca_body")
    /\ LET i == IndexOf(g_vc_list, th[t].dev) IN
       IF i = g_vc_count
       THEN /\ th' = Done(t, ERR_INVALID_ARGS)
            /\ UnlockRegistry(t)
            /\ UNCHANGED <<g_battery_info, invy0, invy1, g_active_vc, g_active_vc_index, active, flags, ub>>
       ELSE /\ __vc_set_active(th[t].dev, i)
            /\ th' = [th EXCEPT ![t].pc = "sca_render"]
            /\ UNCHANGED g_vc_lock
    /\ UNCHANGED <<g_battery_info, invy0, invy1, g_vc_list, g_vc_count, st, io>>

\* lines 348-358
vc_set_console_to_active_body(t) ==
    /\ At(t, "sca_body")
    /\ LET i == IndexOf(g_vc_list, th[t].dev) IN
       IF i = g_vc_count
       THEN /\ th' = Done(t, ERR_INVALID_ARGS)
            /\ UNCHANGED <<g_battery_info, invy0, invy1, g_active_vc, g_active_vc_index, active, flags, ub>>
       ELSE /\ __vc_set_active(th[t].dev, i)
            /\ th' = [th EXCEPT ![t].pc = "sca_render"]
    /\ UnlockRegistry(t)
    /\ UNCHANGED <<g_battery_info, invy0, invy1, g_vc_list, g_vc_count, st, io>>

\* lines 359-360
vc_set_console_to_active_render(t) ==
    /\ At(t, "sca_render")
    /\ Render(t, "done", NO_ERROR)
    /\ UNCHANGED <<g_battery_info, invy0, invy1, reg, g_vc_lock, st, active, flags, io>>

\* ------------------------------------------------------------ vc_root_open
\* lines 652-670: vc_device_alloc and device_init give a fresh instance.
vc_root_open_call(t) ==
    /\ At(t, "idle")
    /\ \E v \in VC :
        /\ st[v] = "none"
        /\ \A u \in VC : u < v => st[u] # "none"
        /\ st' = [st EXCEPT ![v] = "opening"]
        /\ th' = [th EXCEPT ![t].pc = "open_lock", ![t].op = "open", ![t].dev = v]
    /\ UNCHANGED <<g_battery_info, invy0, invy1, reg, g_vc_lock, active, flags, io, ub>>

\* lines 652-654, 665-669: allocation or device_add_instance fails.
vc_root_open_fail(t) ==
    /\ At(t, "idle")
    /\ th' = [th EXCEPT ![t].pc = "done", ![t].op = "open", ![t].ret = ERR_NO_MEMORY]
    /\ UNCHANGED <<g_battery_info, invy0, invy1, reg, g_vc_lock, st, active, flags, io, ub>>

vc_root_open_lock(t) ==
    /\ At(t, "open_lock")
    /\ LockRegistry(t)
    /\ th' = [th EXCEPT ![t].pc = "open_add"]
    /\ UNCHANGED <<g_battery_info, invy0, invy1, reg, st, active, flags, io, ub>>

\* lines 674-676
vc_root_open_add(t) ==
    /\ At(t, "open_add")
    /\ g_vc_list' = Append(g_vc_list, th[t].dev)
    /\ g_vc_count' = UAdd1(g_vc_count)
    /\ UnlockRegistry(t)
    /\ th' = [th EXCEPT ![t].pc = "open_check"]
    /\ UNCHANGED <<g_battery_info, invy0, invy1, g_active_vc, g_active_vc_index, st, active, flags, io, ub>>

\* lines 679-683: g_active_vc is read with no lock held.
vc_root_open_check(t) ==
    /\ At(t, "open_check")
    /\ IF g_active_vc = NULL
       THEN /\ th' = [th EXCEPT ![t].pc = "sac_check", ![t].console = 0,
                                ![t].cont = "open_ret"]
            /\ UNCHANGED ub
       ELSE Render(t, "open_ret", NO_ERROR)
    /\ UNCHANGED <<g_battery_info, invy0, invy1, reg, g_vc_lock, st, active, flags, io>>

\* lines 685-686
vc_root_open_ret(t) ==
    /\ At(t, "open_ret")
    /\ st' = [st EXCEPT ![th[t].dev] = "open"]
    /\ th' = Done(t, NO_ERROR)
    /\ UNCHANGED <<g_battery_info, invy0, invy1, reg, g_vc_lock, active, flags, io, ub>>

\* ------------------------------------------------------- vc_device_release
\* The device layer releases an instance once, when no call on it is running.
vc_device_release_call(t, vc) ==
    /\ At(t, "idle")
    /\ st[vc] = "open"
    /\ ~InFlight(vc)
    /\ st' = [st EXCEPT ![vc] = "closing"]
    /\ th' = [th EXCEPT ![t].pc = "rel_lock", ![t].op = "release", ![t].dev = vc]
    /\ UNCHANGED <<g_battery_info, invy0, invy1, reg, g_vc_lock, active, flags, io, ub>>

vc_device_release_lock(t) ==
    /\ At(t, "rel_lock")
    /\ LockRegistry(t)
    /\ th' = [th EXCEPT ![t].pc = "rel_unlink"]
    /\ UNCHANGED <<g_battery_info, invy0, invy1, reg, st, active, flags, io, ub>>

\* vc_device_release that does not clamp g_active_vc_index to the new count.
vc_device_release_unlink_NoClamp(t) ==
    /\ At(t, "rel_unlink")
    /\ LET vc == th[t].dev IN
       /\ g_vc_list' = RemoveFrom(g_vc_list, vc)
       /\ g_vc_count' = USub1(g_vc_count)
       /\ IF active[vc]
          THEN g_active_vc' = NULL /\ UNCHANGED g_active_vc_index
          ELSE UNCHANGED <<g_battery_info, invy0, invy1, g_active_vc, g_active_vc_index>>
       /\ th' = [th EXCEPT ![t].pc = "rel_fix", ![t].act0 = active[vc],
                           ![t].idx0 = g_active_vc_index]
    /\ UNCHANGED <<g_battery_info, invy0, invy1, g_vc_lock, st, active, flags, io, ub>>

\* lines 423-431
vc_device_release_unlink(t) ==
    /\ At(t, "rel_unlink")
    /\ LET vc == th[t].dev
           count == USub1(g_vc_count)
       IN
       /\ g_vc_list' = RemoveFrom(g_vc_list, vc)
       /\ g_vc_count' = count
       /\ IF active[vc]
          THEN /\ g_active_vc' = NULL
               /\ g_active_vc_index' =
                    IF g_active_vc_index >= count
                    THEN USub1(count)
                    ELSE g_active_vc_index
          ELSE UNCHANGED <<g_battery_info, invy0, invy1, g_active_vc, g_active_vc_index>>
       /\ th' = [th EXCEPT ![t].pc = "rel_fix", ![t].act0 = active[vc],
                           ![t].idx0 = g_active_vc_index]
    /\ UNCHANGED <<g_battery_info, invy0, invy1, g_vc_lock, st, active, flags, io, ub>>

\* lines 434-450: the fix-up scan, then unlock.
vc_device_release_fix(t) ==
    /\ At(t, "rel_fix")
    /\ IF g_active_vc # NULL
       THEN /\ g_active_vc_index' =
                 IF IndexOf(g_vc_list, g_active_vc) < Len(g_vc_list)
                 THEN IndexOf(g_vc_list, g_active_vc)
                 ELSE g_active_vc_index
            /\ UNCHANGED <<g_battery_info, invy0, invy1, g_active_vc, active, flags, ub>>
       ELSE IF g_active_vc_index < Len(g_vc_list)
            THEN __vc_set_active(g_vc_list[g_active_vc_index + 1], g_active_vc_index)
            ELSE UNCHANGED <<g_battery_info, invy0, invy1, g_active_vc, g_active_vc_index, active, flags, ub>>
    /\ UnlockRegistry(t)
    /\ th' = [th EXCEPT ![t].pc = "rel_free"]
    /\ UNCHANGED <<g_battery_info, invy0, invy1, g_vc_list, g_vc_count, st, io>>

\* lines 452-458: vc_device_free(vc), then render the active instance if any.
vc_device_release_free(t) ==
    /\ At(t, "rel_free")
    /\ st' = [st EXCEPT ![th[t].dev] = "freed"]
    /\ IF g_active_vc # NULL
       THEN Render(t, "done", NO_ERROR)
       ELSE th' = Done(t, NO_ERROR) /\ UNCHANGED ub
    /\ UNCHANGED <<g_battery_info, invy0, invy1, reg, g_vc_lock, active, flags, io>>

\* ------------------------------------------------------------ keyboard
\* HID usage codes of the keys the driver names (hid/usages.h).
HID_USAGE_KEY_A == 4
HID_USAGE_KEY_Z == 29
HID_USAGE_KEY_1 == 30
HID_USAGE_KEY_0 == 39
HID_USAGE_KEY_ENTER == 40
HID_USAGE_KEY_ESC == 41
HID_USAGE_KEY_BACKSPACE == 42
HID_USAGE_KEY_TAB == 43
HID_USAGE_KEY_SPACE == 44
HID_USAGE_KEY_F1 == 58
HID_USAGE_KEY_F10 == 67
HID_USAGE_KEY_F11 == 68
HID_USAGE_KEY_HOME == 74
HID_USAGE_KEY_PAGEUP == 75
HID_USAGE_KEY_DELETE == 76
HID_USAGE_KEY_END == 77
HID_USAGE_KEY_PAGEDOWN == 78
HID_USAGE_KEY_RIGHT == 79
HID_USAGE_KEY_LEFT == 80
HID_USAGE_KEY_DOWN == 81
HID_USAGE_KEY_UP == 82
HID_USAGE_KEY_KP_ENTER == 88
HID_USAGE_KEY_LEFT_CTRL == 224
HID_USAGE_KEY_LEFT_SHIFT == 225
HID_USAGE_KEY_LEFT_ALT == 226
HID_USAGE_KEY_RIGHT_CTRL == 228
HID_USAGE_KEY_RIGHT_SHIFT == 229
HID_USAGE_KEY_RIGHT_ALT == 230

\* The modifier mask is a set of the MOD_ bits.
MOD_SHIFT == {"MOD_LSHIFT", "MOD_RSHIFT"}
MOD_ALT == {"MOD_LALT", "MOD_RALT"}
MOD_CTRL == {"MOD_LCTRL", "MOD_RCTRL"}
Has(modifiers, mask) == modifiers \cap mask # {}

\* lines 64-80
modifiers_from_keycode(keycode) ==
    CASE keycode = HID_USAGE_KEY_LEFT_SHIFT -> {"MOD_LSHIFT"}
      [] keycode = HID_USAGE_KEY_RIGHT_SHIFT -> {"MOD_RSHIFT"}
      [] keycode = HID_USAGE_KEY_LEFT_ALT -> {"MOD_LALT"}
      [] keycode = HID_USAGE_KEY_RIGHT_ALT -> {"MOD_RALT"}
      [] keycode = HID_USAGE_KEY_LEFT_CTRL -> {"MOD_LCTRL"}
      [] keycode = HID_USAGE_KEY_RIGHT_CTRL -> {"MOD_RCTRL"}
      [] OTHER -> {}

\* The characters of the digit row of the qwerty keymap, keys 1 2 ... 9 0:
\* "1234567890" and, shifted, "!@#$%^&*()".
qwerty_digits == <<49, 50, 51, 52, 53, 54, 55, 56, 57, 48>>
qwerty_digits_shift == <<33, 64, 35, 36, 37, 94, 38, 42, 40, 41>>

\* hid_map_key(keycode, shift, keymap) with the qwerty keymap every console
\* gets: the character of a letter key, of a digit key and of the space bar,
\* 0 for a key with no character.
hid_map_key(keycode, shift) ==
    IF keycode >= HID_USAGE_KEY_A /\ keycode <= HID_USAGE_KEY_Z
    THEN (IF shift THEN 65 ELSE 97) + (keycode - HID_USAGE_KEY_A)
    ELSE IF keycode >= HID_USAGE_KEY_1 /\ keycode <= HID_USAGE_KEY_0
    THEN (IF shift THEN qwerty_digits_shift ELSE qwerty_digits)
            [keycode - HID_USAGE_KEY_1 + 1]
    ELSE IF keycode = HID_USAGE_KEY_SPACE THEN 32
    ELSE 0

\* hid_key_to_ansi_code that subtracts 'a' whether or not SHIFT is held.
hid_key_to_ansi_code_LowerBase(keycode, modifiers) ==
    LET ch == hid_map_key(keycode, Has(modifiers, MOD_SHIFT)) IN
    IF ch # 0
    THEN IF Has(modifiers, MOD_CTRL) THEN <<(ch - 97 + 1) % 256>> ELSE <<ch>>
    ELSE <<>>

\* hid_key_to_ansi_code (lines 464-550): the bytes written to buf.
hid_key_to_ansi_code(keycode, modifiers) ==
    LET ch == hid_map_key(keycode, Has(modifiers, MOD_SHIFT)) IN
    IF ch # 0
    THEN IF Has(modifiers, MOD_CTRL)
         THEN LET sub == IF Has(modifiers, MOD_SHIFT) THEN 65 ELSE 97 IN
              <<(ch - sub + 1) % 256>>
         ELSE <<ch>>
    ELSE CASE keycode \in {HID_USAGE_KEY_ENTER, HID_USAGE_KEY_KP_ENTER} -> <<10>>
           [] keycode = HID_USAGE_KEY_BACKSPACE -> <<8>>
           [] keycode = HID_USAGE_KEY_TAB -> <<9>>
           [] keycode = HID_USAGE_KEY_ESC -> <<27>>
           [] keycode = HID_USAGE_KEY_UP -> <<27, 91, 65>>
           [] keycode = HID_USAGE_KEY_DOWN -> <<27, 91, 66>>
           [] keycode = HID_USAGE_KEY_RIGHT -> <<27, 91, 67>>
           [] keycode = HID_USAGE_KEY_LEFT -> <<27, 91, 68>>
           [] keycode = HID_USAGE_KEY_HOME -> <<27, 91, 72>>
           [] keycode = HID_USAGE_KEY_END -> <<27, 91, 70>>
           [] keycode = HID_USAGE_KEY_DELETE -> <<27, 91, 51, 126>>
           [] keycode = HID_USAGE_KEY_PAGEUP -> <<27, 91, 53, 126>>
           [] keycode = HID_USAGE_KEY_PAGEDOWN -> <<27, 91, 54, 126>>
           [] OTHER -> <<>>

\* ----------------------------------------------------------------- FIFO
\* Capacity of a console FIFO in bytes.
FifoCap == 4

mx_hid_fifo_size(q) == Len(q)

\* mx_hid_fifo_write(fifo, buf, len): all of buf, or nothing when it does not fit.
mx_hid_fifo_write(q, buf) ==
    IF Len(q) + Len(buf) <= FifoCap THEN q \o buf ELSE q

\* mx_hid_fifo_read(fifo, buf, count): the number of bytes taken from the front.
mx_hid_fifo_read(q, count) == IF count < Len(q) THEN count ELSE Len(q)

Prefixes(buf) == {SubSeq(buf, 1, k) : k \in 0..Len(buf)}

\* --------------------------------------------------- vc_handle_key_press
vc_handle_key_press_call(t, keycode, modifiers, kcont) ==
    /\ At(t, "idle")
    /\ th' = [th EXCEPT ![t].pc = "kp_ctl", ![t].op = "key_press",
                        ![t].key = keycode, ![t].mods = modifiers,
                        ![t].kcont = kcont]
    /\ UNCHANGED <<g_battery_info, invy0, invy1, reg, g_vc_lock, st, active, flags, io, ub>>

\* The console TAB + ALT switches to (lines 104 and 106): g_active_vc_index
\* and g_vc_count are read with no lock held.
CycleTarget(modifiers) ==
    IF Has(modifiers, MOD_SHIFT)
    THEN (IF g_active_vc_index = 0 THEN USub1(g_vc_count) ELSE USub1(g_active_vc_index))
    ELSE (IF g_active_vc_index = USub1(g_vc_count) THEN 0 ELSE UAdd1(g_active_vc_index))

\* vc_handle_control_keys (lines 85-151). A handled key goes to kp_ret, an
\* unhandled one on to the FIFO write at kp_lock.
vc_handle_control_keys(t) ==
    /\ At(t, "kp_ctl")
    /\ LET keycode == th[t].key
           modifiers == th[t].mods
           handled(act) == [th EXCEPT ![t].pc = "kp_ret", ![t].act = act]
           switch(console) == [th EXCEPT ![t].pc = "sac_check", ![t].act = "switch",
                                         ![t].console = console, ![t].cont = "kp_ret"]
       IN
       IF keycode >= HID_USAGE_KEY_F1 /\ keycode <= HID_USAGE_KEY_F10
             /\ Has(modifiers, MOD_ALT)
       THEN /\ th' = switch(keycode - HID_USAGE_KEY_F1)
            /\ UNCHANGED <<g_battery_info, invy0, invy1, flags, ub>>
       ELSE IF keycode = HID_USAGE_KEY_F11 /\ g_active_vc # NULL
                 /\ Has(modifiers, MOD_ALT)
       THEN /\ th' = handled("fullscreen")
            /\ Deref(g_active_vc)
            /\ flags' = [v \in VC |->
                           IF v # g_active_vc THEN flags[v]
                           ELSE IF "FULLSCREEN" \in flags[v]
                                THEN flags[v] \ {"FULLSCREEN"}
                                ELSE flags[v] \cup {"FULLSCREEN"}]
       ELSE IF keycode = HID_USAGE_KEY_TAB /\ Has(modifiers, MOD_ALT)
       THEN /\ th' = switch(CycleTarget(modifiers))
            /\ UNCHANGED <<g_battery_info, invy0, invy1, flags, ub>>
       ELSE IF \/ keycode \in {HID_USAGE_KEY_UP, HID_USAGE_KEY_DOWN}
                    /\ Has(modifiers, MOD_ALT)
               \/ keycode \in {HID_USAGE_KEY_PAGEUP, HID_USAGE_KEY_PAGEDOWN}
                    /\ Has(modifiers, MOD_SHIFT)
       THEN /\ th' = handled("scroll")
            /\ Deref(g_active_vc)
            /\ UNCHANGED flags
       ELSE IF keycode = HID_USAGE_KEY_DELETE /\ Has(modifiers, MOD_CTRL)
                 /\ Has(modifiers, MOD_ALT)
       THEN /\ \E opened \in BOOLEAN :
                 th' = handled(IF opened THEN "reboot" ELSE "reboot_nofd")
            /\ UNCHANGED <<g_battery_info, invy0, invy1, flags, ub>>
       ELSE /\ th' = [th EXCEPT ![t].pc = "kp_lock", ![t].act = "none"]
            /\ UNCHANGED <<g_battery_info, invy0, invy1, flags, ub>>
    /\ UNCHANGED <<g_battery_info, invy0, invy1, reg, g_vc_lock, st, active, io>>

\* vc_handle_key_press returns to kcont; its arguments and locals are gone.
vc_handle_key_press_return(t) ==
    IF th[t].kcont = "idle" THEN [th EXCEPT ![t] = IdleThread]
    ELSE [th EXCEPT ![t].pc = th[t].kcont, ![t].key = 0, ![t].mods = {},
                    ![t].lk = NULL, ![t].act = "none", ![t].out = <<>>,
                    ![t].console = 0, ![t].cont = "idle", ![t].rend = NoRender,
                    ![t].ret = NO_ERROR, ![t].device = NULL]

\* lines 154-155: the key was handled; vc_handle_key_press returns.
vc_handle_key_press_ret(t) ==
    /\ At(t, "kp_ret")
    /\ th' = vc_handle_key_press_return(t)
    /\ UNCHANGED <<g_battery_info, invy0, invy1, reg, g_vc_lock, st, active, flags, io, ub>>

\* line 158: mtx_lock(&g_active_vc->fifo.lock).
vc_handle_key_press_lock(t) ==
    /\ At(t, "kp_lock")
    /\ IF Live(g_active_vc)
       THEN /\ fifo_lock[g_active_vc] = 0
            /\ fifo_lock' = [fifo_lock EXCEPT ![g_active_vc] = t]
            /\ th' = [th EXCEPT ![t].pc = "kp_size", ![t].lk = g_active_vc]
            /\ UNCHANGED ub
       ELSE /\ ub' = "wild"
            /\ UNCHANGED <<g_battery_info, invy0, invy1, fifo_lock, th>>
    /\ UNCHANGED <<g_battery_info, invy0, invy1, reg, g_vc_lock, st, active, flags, vc_lock, fifo, readable>>

\* lines 159-161
vc_handle_key_press_size(t) ==
    /\ At(t, "kp_size")
    /\ Deref(g_active_vc)
    /\ flags' = [v \in VC |->
                   IF v = g_active_vc /\ mx_hid_fifo_size(fifo[v]) = 0
                   THEN flags[v] \cup {"RESETSCROLL"} ELSE flags[v]]
    /\ th' = [th EXCEPT ![t].pc = "kp_write"]
    /\ UNCHANGED <<g_battery_info, invy0, invy1, reg, g_vc_lock, st, active, io>>

\* lines 162-171: translate, then write into the FIFO of g_active_vc as it is
\* now. A write into a FIFO whose lock another thread holds is a data race:
\* any part of the sequence may land.
vc_handle_key_press_write(t) ==
    /\ At(t, "kp_write")
    /\ LET output == hid_key_to_ansi_code(th[t].key, th[t].mods)
           v == g_active_vc
       IN
       IF Len(output) = 0
       THEN /\ th' = [th EXCEPT ![t].pc = "kp_unlock", ![t].out = output]
            /\ Deref(v)
            /\ UNCHANGED fifo
       ELSE /\ th' = [th EXCEPT ![t].pc = "kp_signal", ![t].out = output]
            /\ IF ~Live(v)
               THEN ub' = "wild" /\ UNCHANGED fifo
               ELSE IF fifo_lock[v] \notin {0, t}
               THEN /\ ub' = "race"
                    /\ \E part \in Prefixes(output) :
                         fifo' = [fifo EXCEPT ![v] = mx_hid_fifo_write(fifo[v], part)]
               ELSE /\ UNCHANGED ub
                    /\ fifo' = [fifo EXCEPT ![v] = mx_hid_fifo_write(fifo[v], output)]
    /\ UNCHANGED <<g_battery_info, invy0, invy1, reg, g_vc_lock, st, active, flags, vc_lock, fifo_lock, readable>>

\* line 173: device_state_set(&g_active_vc->device, DEV_STATE_READABLE)
vc_handle_key_press_signal(t) ==
    /\ At(t, "kp_signal")
    /\ Deref(g_active_vc)
    /\ readable' = [v \in VC |-> IF v = g_active_vc THEN TRUE ELSE readable[v]]
    /\ th' = [th EXCEPT ![t].pc = "kp_unlock"]
    /\ UNCHANGED <<g_battery_info, invy0, invy1, reg, g_vc_lock, st, active, flags, vc_lock, fifo_lock, fifo>>

\* lines 175-176: mtx_unlock(&g_active_vc->fifo.lock)
vc_handle_key_press_unlock(t) ==
    /\ At(t, "kp_unlock")
    /\ IF ~Live(g_active_vc)
       THEN ub' = "wild" /\ UNCHANGED fifo_lock
       ELSE IF fifo_lock[g_active_vc] # t
       THEN ub' = "unlock" /\ UNCHANGED fifo_lock
       ELSE /\ fifo_lock' = [fifo_lock EXCEPT ![g_active_vc] = 0]
            /\ UNCHANGED ub
    /\ th' = vc_handle_key_press_return(t)
    /\ UNCHANGED <<g_battery_info, invy0, invy1, reg, g_vc_lock, st, active, flags, vc_lock, fifo, readable>>

\* ------------------------------------------------------- vc_input_thread
LOW_REPEAT_KEY_FREQUENCY_MICRO == 250000000
HIGH_REPEAT_KEY_FREQUENCY_MICRO == 50000000

\* The 8-byte boot-protocol reports the keyboard sends here: byte 1 holds the
\* modifier bits (bit 0 left CTRL, bit 2 left ALT), bytes 3 to 8 the keys.
KbdReports ==
    {<<m, 0, k, 0, 0, 0, 0, 0>> :
        m \in {0, 5}, k \in {0, HID_USAGE_KEY_A, HID_USAGE_KEY_DELETE}}

\* hid_kbd_parse_report: the set of keys a report shows as down.
hid_kbd_parse_report(buf) ==
    {HID_USAGE_KEY_LEFT_CTRL + b : b \in {c \in 0..7 : (buf[1] \div (2 ^ c)) % 2 = 1}}
        \cup {buf[i] : i \in {j \in 3..8 : buf[j] # 0}}

\* What a buffer is read as: a buffer never stored into holds any bytes.
Contents(buf) == IF buf = Uninit THEN KbdReports ELSE {buf}

\* hid_for_every_key visits the keys of a set in ascending order.
FirstKey(keys) == CHOOSE k \in keys : \A j \in keys : k <= j

\* lines 209-225: the poll thread starts vc_input_thread for a keyboard.
vc_input_thread_start(t) ==
    /\ At(t, "idle")
    /\ \E enabled \in BOOLEAN :
         th' = [th EXCEPT ![t].pc = "kb_wait", ![t].op = "input",
                          ![t].kb = [KbLocals EXCEPT !.repeat_enabled = enabled]]
    /\ UNCHANGED <<g_battery_info, invy0, invy1, reg, g_vc_lock, st, active, flags, io, ub>>

\* lines 227-230: mxio_wait_fd returns, timed out or not; it times out only
\* with a finite repeat_interval.
vc_input_thread_wait(t) ==
    /\ At(t, "kb_wait")
    /\ \E timed_out \in BOOLEAN :
         /\ timed_out => th[t].kb.repeat_interval # MX_TIME_INFINITE
         /\ th' = [th EXCEPT ![t].pc = IF timed_out THEN "kb_timeout" ELSE "kb_read"]
    /\ UNCHANGED <<g_battery_info, invy0, invy1, reg, g_vc_lock, st, active, flags, io, ub>>

\* vc_process_kb_report, lines 186-190: parse report into key_state[cur_idx],
\* take the newly pressed keys; control goes on to the loop over them.
vc_process_kb_report_begin(t, report, want, pcont) ==
    LET kb == th[t].kb
        cur == hid_kbd_parse_report(report)
        key_delta == cur \ kb.key_state[kb.prev_idx + 1]
    IN
    [th EXCEPT ![t].pc = "kb_press",
               ![t].kb = [kb EXCEPT !.key_state[kb.cur_idx + 1] = cur,
                                    !.key_delta = key_delta,
                                    !.key_pressed = IF want THEN key_delta ELSE @,
                                    !.want = want,
                                    !.pcont = pcont]]

\* lines 191-194: one turn of the loop over the pressed keys.
vc_process_kb_report_press(t) ==
    /\ At(t, "kb_press")
    /\ LET kb == th[t].kb IN
       IF kb.key_delta = {}
       THEN th' = [th EXCEPT ![t].pc = "kb_release"]
       ELSE LET keycode == FirstKey(kb.key_delta)
                modifiers == kb.modifiers \cup modifiers_from_keycode(keycode)
            IN
            th' = [th EXCEPT ![t].pc = "kp_ctl", ![t].key = keycode,
                             ![t].mods = modifiers, ![t].kcont = "kb_press",
                             ![t].kb = [kb EXCEPT !.modifiers = modifiers,
                                                  !.key_delta = @ \ {keycode}]]
    /\ UNCHANGED <<g_battery_info, invy0, invy1, reg, g_vc_lock, st, active, flags, io, ub>>

\* lines 196-206: the released keys leave the modifiers; the key states swap.
vc_process_kb_report_release(t) ==
    /\ At(t, "kb_release")
    /\ LET kb == th[t].kb
           key_delta == kb.key_state[kb.prev_idx + 1] \ kb.key_state[kb.cur_idx + 1]
           gone == UNION {modifiers_from_keycode(k) : k \in key_delta}
       IN
       th' = [th EXCEPT ![t].pc = kb.pcont,
                        ![t].kb = [kb EXCEPT !.key_released = IF kb.want THEN key_delta ELSE @,
                                             !.key_delta = {},
                                             !.modifiers = @ \ gone,
                                             !.cur_idx = 1 - @,
                                             !.prev_idx = 1 - @]]
    /\ UNCHANGED <<g_battery_info, invy0, invy1, reg, g_vc_lock, st, active, flags, io, ub>>

\* lines 230-232: the wait timed out; replay previous_report_buf.
vc_input_thread_timeout(t) ==
    /\ At(t, "kb_timeout")
    /\ \E report \in Contents(th[t].kb.previous_report_buf) :
         th' = vc_process_kb_report_begin(t, report, FALSE, "kb_timeout2")
    /\ UNCHANGED <<g_battery_info, invy0, invy1, reg, g_vc_lock, st, active, flags, io, ub>>

\* line 233: then replay report_buf.
vc_input_thread_timeout2(t) ==
    /\ At(t, "kb_timeout2")
    /\ \E report \in Contents(th[t].kb.report_buf) :
         th' = vc_process_kb_report_begin(t, report, FALSE, "kb_accel")
    /\ UNCHANGED <<g_battery_info, invy0, invy1, reg, g_vc_lock, st, active, flags, io, ub>>

\* vc_input_thread whose repeat interval grows by a third at each timeout.
vc_input_thread_accel_Decelerates(t) ==
    /\ At(t, "kb_accel")
    /\ th' = [th EXCEPT ![t].pc = "kb_wait",
                        ![t].kb.repeat_interval = (@ * 4) \div 3,
                        ![t].kb.pcont = "idle"]
    /\ UNCHANGED <<g_battery_info, invy0, invy1, reg, g_vc_lock, st, active, flags, io, ub>>

\* lines 234-237
vc_input_thread_accel(t) ==
    /\ At(t, "kb_accel")
    /\ LET r == (th[t].kb.repeat_interval * 3) \div 4 IN
       th' = [th EXCEPT ![t].pc = "kb_wait",
                        ![t].kb.repeat_interval =
                            IF r < HIGH_REPEAT_KEY_FREQUENCY_MICRO
                            THEN HIGH_REPEAT_KEY_FREQUENCY_MICRO ELSE r,
                        ![t].kb.pcont = "idle"]
    /\ UNCHANGED <<g_battery_info, invy0, invy1, reg, g_vc_lock, st, active, flags, io, ub>>

\* vc_input_thread that processes a report whether or not a console is active.
vc_input_thread_read_NoActiveCheck(t) ==
    /\ At(t, "kb_read")
    /\ LET kb == [th[t].kb EXCEPT !.previous_report_buf = th[t].kb.report_buf] IN
       \/ th' = [th EXCEPT ![t] = IdleThread]
       \/ th' = [th EXCEPT ![t].pc = "kb_wait",
                           ![t].kb = [kb EXCEPT !.repeat_interval = MX_TIME_INFINITE]]
       \/ \E report \in KbdReports :
            th' = [vc_process_kb_report_begin(t, report, TRUE, "kb_repeat")
                     EXCEPT ![t].kb.report_buf = report,
                            ![t].kb.previous_report_buf = kb.previous_report_buf]
    /\ UNCHANGED <<g_battery_info, invy0, invy1, reg, g_vc_lock, st, active, flags, io, ub>>

\* lines 240-255: copy report_buf aside and read the next report. The read
\* fails (the thread ends), returns no bytes, or returns a whole report.
vc_input_thread_read(t) ==
    /\ At(t, "kb_read")
    /\ LET kb == [th[t].kb EXCEPT !.previous_report_buf = th[t].kb.report_buf] IN
       \/ th' = [th EXCEPT ![t] = IdleThread]
       \/ th' = [th EXCEPT ![t].pc = "kb_wait",
                           ![t].kb = [kb EXCEPT !.repeat_interval = MX_TIME_INFINITE]]
       \/ \E report \in KbdReports :
            LET got == [th EXCEPT ![t].kb = [kb EXCEPT !.report_buf = report]] IN
            IF g_active_vc = NULL
            THEN th' = [got EXCEPT ![t].pc = "kb_wait",
                                   ![t].kb.repeat_interval = MX_TIME_INFINITE]
            ELSE th' = [vc_process_kb_report_begin(t, report, TRUE, "kb_repeat")
                          EXCEPT ![t].kb.report_buf = report,
                                 ![t].kb.previous_report_buf = kb.previous_report_buf]
    /\ UNCHANGED <<g_battery_info, invy0, invy1, reg, g_vc_lock, st, active, flags, io, ub>>

\* vc_input_thread that looks at the pressed keys before the released ones.
vc_input_thread_repeat_PressedFirst(t) ==
    /\ At(t, "kb_repeat")
    /\ LET kb == th[t].kb
           pressed == \E k \in kb.key_pressed : k < HID_USAGE_KEY_LEFT_CTRL
           released == kb.key_released # {}
       IN
       th' = [th EXCEPT ![t].pc = "kb_wait",
                        ![t].kb.repeat_interval =
                            IF ~kb.repeat_enabled THEN @
                            ELSE IF pressed THEN LOW_REPEAT_KEY_FREQUENCY_MICRO
                            ELSE IF released THEN MX_TIME_INFINITE
                            ELSE @,
                        ![t].kb.key_pressed = {},
                        ![t].kb.key_released = {},
                        ![t].kb.want = FALSE,
                        ![t].kb.pcont = "idle"]
    /\ UNCHANGED <<g_battery_info, invy0, invy1, reg, g_vc_lock, st, active, flags, io, ub>>

\* lines 257-283: choose the next wait's timeout.
vc_input_thread_repeat(t) ==
    /\ At(t, "kb_repeat")
    /\ LET kb == th[t].kb
           pressed == \E k \in kb.key_pressed : k < HID_USAGE_KEY_LEFT_CTRL
           released == kb.key_released # {}
       IN
       th' = [th EXCEPT ![t].pc = "kb_wait",
                        ![t].kb.repeat_interval =
                            IF ~kb.repeat_enabled THEN @
                            ELSE IF released THEN MX_TIME_INFINITE
                            ELSE IF pressed THEN LOW_REPEAT_KEY_FREQUENCY_MICRO
                            ELSE @,
                        ![t].kb.key_pressed = {},
                        ![t].kb.key_released = {},
                        ![t].kb.want = FALSE,
                        ![t].kb.pcont = "idle"]
    /\ UNCHANGED <<g_battery_info, invy0, invy1, reg, g_vc_lock, st, active, flags, io, ub>>

\* ---------------------------------------------------------- vc_device_read
ERR_SHOULD_WAIT == -22

vc_device_read_call(t, dev, count) ==
    /\ At(t, "idle")
    /\ st[dev] = "open"
    /\ th' = [th EXCEPT ![t].pc = "r_lock", ![t].op = "read", ![t].dev = dev,
                        ![t].n = count]
    /\ UNCHANGED <<g_battery_info, invy0, invy1, reg, g_vc_lock, st, active, flags, io, ub>>

\* line 555
vc_device_read_lock(t) ==
    /\ At(t, "r_lock")
    /\ fifo_lock[th[t].dev] = 0
    /\ fifo_lock' = [fifo_lock EXCEPT ![th[t].dev] = t]
    /\ th' = [th EXCEPT ![t].pc = "r_body"]
    /\ UNCHANGED <<g_battery_info, invy0, invy1, reg, g_vc_lock, st, active, flags, vc_lock, fifo, readable, ub>>

\* vc_device_read that returns the 0 of an empty FIFO as it is.
vc_device_read_body_ReturnsZero(t) ==
    /\ At(t, "r_body")
    /\ LET vc == th[t].dev
           result == mx_hid_fifo_read(fifo[vc], th[t].n)
           rest == SubSeq(fifo[vc], result + 1, Len(fifo[vc]))
       IN
       /\ fifo' = [fifo EXCEPT ![vc] = rest]
       /\ readable' = [readable EXCEPT ![vc] =
                          IF mx_hid_fifo_size(rest) = 0 THEN FALSE ELSE readable[vc]]
       /\ fifo_lock' = [fifo_lock EXCEPT ![vc] = 0]
       /\ th' = Done(t, result)
    /\ UNCHANGED <<g_battery_info, invy0, invy1, reg, g_vc_lock, st, active, flags, vc_lock, ub>>

\* lines 556-564
vc_device_read_body(t) ==
    /\ At(t, "r_body")
    /\ LET vc == th[t].dev
           result == mx_hid_fifo_read(fifo[vc], th[t].n)
           rest == SubSeq(fifo[vc], result + 1, Len(fifo[vc]))
       IN
       /\ fifo' = [fifo EXCEPT ![vc] = rest]
       /\ readable' = [readable EXCEPT ![vc] =
                          IF mx_hid_fifo_size(rest) = 0 THEN FALSE ELSE readable[vc]]
       /\ fifo_lock' = [fifo_lock EXCEPT ![vc] = 0]
       /\ th' = Done(t, IF result = 0 THEN ERR_SHOULD_WAIT ELSE result)
    /\ UNCHANGED <<g_battery_info, invy0, invy1, reg, g_vc_lock, st, active, flags, vc_lock, ub>>

\* --------------------------------------------------------- vc_device_write
vc_device_write_call(t, dev, buf, count) ==
    /\ At(t, "idle")
    /\ st[dev] = "open"
    /\ th' = [th EXCEPT ![t].pc = "w_lock", ![t].op = "write", ![t].dev = dev,
                        ![t].str = buf, ![t].n = count]
    /\ UNCHANGED <<g_battery_info, invy0, invy1, reg, g_vc_lock, st, active, flags, io, ub>>

\* line 569
vc_device_write_lock(t) ==
    /\ At(t, "w_lock")
    /\ vc_lock[th[t].dev] = 0
    /\ vc_lock' = [vc_lock EXCEPT ![th[t].dev] = t]
    /\ th' = [th EXCEPT ![t].pc = "w_body"]
    /\ UNCHANGED <<g_battery_info, invy0, invy1, reg, g_vc_lock, st, active, flags, fifo_lock, fifo, readable, ub>>

\* The rows textcon.putc(ch) reports as changed through the console's
\* invalidate callback: a printing character changes the row of the cursor,
\* taken to be the first row; a control character such as BEL changes none.
putc_rows(ch) == IF ch >= 32 THEN {0} ELSE {}

\* The accumulator after the callback has reported the rows of str[i..count]:
\* invy0 goes down to the first changed row, invy1 up to one past the last.
RECURSIVE putc_all(_, _, _, _)
putc_all(str, i, count, inv) ==
    IF i > count THEN inv
    ELSE LET rows == putc_rows(str[i])
             y0 == IF \E y \in rows : y < inv[1]
                   THEN CHOOSE y \in rows : \A z \in rows : y <= z ELSE inv[1]
             y1 == IF \E y \in rows : y + 1 > inv[2]
                   THEN (CHOOSE y \in rows : \A z \in rows : y >= z) + 1 ELSE inv[2]
         IN putc_all(str, i + 1, count, <<y0, y1>>)

\* vc_device_write that starts the batch without emptying the accumulator.
vc_device_write_body_NoReset(t) ==
    /\ At(t, "w_body")
    /\ LET vc == th[t].dev
           inv == putc_all(th[t].str, 1, th[t].n, <<invy0[vc], invy1[vc]>>)
       IN /\ invy0' = [invy0 EXCEPT ![vc] = inv[1]]
          /\ invy1' = [invy1 EXCEPT ![vc] = inv[2]]
    /\ th' = [th EXCEPT ![t].pc = "w_flush"]
    /\ UNCHANGED <<g_battery_info, reg, g_vc_lock, st, active, flags, io, ub>>

\* lines 570-575: the accumulator is emptied, then the bytes are fed to the
\* text console, whose callback records the changed rows in it.
vc_device_write_body(t) ==
    /\ At(t, "w_body")
    /\ LET vc == th[t].dev
           inv == putc_all(th[t].str, 1, th[t].n, <<vc_device_rows + 1, -1>>)
       IN /\ invy0' = [invy0 EXCEPT ![vc] = inv[1]]
          /\ invy1' = [invy1 EXCEPT ![vc] = inv[2]]
    /\ th' = [th EXCEPT ![t].pc = "w_flush"]
    /\ UNCHANGED <<g_battery_info, reg, g_vc_lock, st, active, flags, io, ub>>

\* lines 576-578: the rows recorded, if any, are handed to vc_gfx_invalidate;
\* the accumulator is left as it is.
vc_device_write_flush(t) ==
    /\ At(t, "w_flush")
    /\ th' = [th EXCEPT ![t].pc = "w_check"]
    /\ UNCHANGED <<g_battery_info, invy0, invy1, reg, g_vc_lock, st, active, flags, io, ub>>

\* line 579
vc_device_write_check(t) ==
    /\ At(t, "w_check")
    /\ th' = [th EXCEPT ![t].pc =
                IF ~active[th[t].dev] /\ "HASINPUT" \notin flags[th[t].dev]
                THEN "w_set" ELSE "w_unlock"]
    /\ UNCHANGED <<g_battery_info, invy0, invy1, reg, g_vc_lock, st, active, flags, io, ub>>

\* vc_device_write that marks the console for a scroll reset instead of
\* marking it as having input.
vc_device_write_set_WrongFlag(t) ==
    /\ At(t, "w_set")
    /\ flags' = [flags EXCEPT ![th[t].dev] = @ \cup {"RESETSCROLL"}]
    /\ th' = [th EXCEPT ![t].pc = "w_status"]
    /\ UNCHANGED <<g_battery_info, invy0, invy1, reg, g_vc_lock, st, active, io, ub>>

\* line 580
vc_device_write_set(t) ==
    /\ At(t, "w_set")
    /\ flags' = [flags EXCEPT ![th[t].dev] = @ \cup {"HASINPUT"}]
    /\ th' = [th EXCEPT ![t].pc = "w_status"]
    /\ UNCHANGED <<g_battery_info, invy0, invy1, reg, g_vc_lock, st, active, io, ub>>

\* line 581: vc_device_write_status(vc) builds the status line with
\* vc_get_status_line, which takes g_vc_lock (line 390).
vc_device_write_status(t) ==
    /\ At(t, "w_status")
    /\ LockRegistry(t)
    /\ th' = [th EXCEPT ![t].pc = "w_status_unlock"]
    /\ UNCHANGED <<g_battery_info, invy0, invy1, reg, st, active, flags, io, ub>>

\* vc_get_status_line reads the list and unlocks (lines 391-408); line 582.
vc_get_status_line_unlock(t) ==
    /\ At(t, "w_status_unlock")
    /\ g_vc_lock = t
    /\ UnlockRegistry(t)
    /\ th' = [th EXCEPT ![t].pc = "w_unlock"]
    /\ UNCHANGED <<g_battery_info, invy0, invy1, reg, st, active, flags, io, ub>>

\* lines 584-585
vc_device_write_unlock(t) ==
    /\ At(t, "w_unlock")
    /\ vc_lock' = [vc_lock EXCEPT ![th[t].dev] = 0]
    /\ th' = Done(t, th[t].n)
    /\ UNCHANGED <<g_battery_info, invy0, invy1, reg, g_vc_lock, st, active, flags, fifo_lock, fifo, readable, ub>>

\* ------------------------------------------------------------------- Spec
\* The count argument of read and of write.
ReadCounts == {0, 2}
\* The bytes of a write: one BEL character.
WriteBufs == {<<7>>}

vc_device_read(t) ==
    \/ \E dev \in VC, count \in ReadCounts : vc_device_read_call(t, dev, count)
    \/ vc_device_read_lock(t)
    \/ vc_device_read_body(t)

vc_device_write_called(t) ==
    \/ vc_device_write_lock(t)
    \/ vc_device_write_body(t)
    \/ vc_device_write_flush(t)
    \/ vc_device_write_check(t)
    \/ vc_device_write_set(t)
    \/ vc_device_write_status(t)
    \/ vc_get_status_line_unlock(t)
    \/ vc_device_write_unlock(t)

vc_device_write(t) ==
    \/ \E dev \in VC, buf \in WriteBufs : vc_device_write_call(t, dev, buf, Len(buf))
    \/ vc_device_write_called(t)

vc_set_active_console(t) ==
    \/ \E console \in 0..MaxVC : vc_set_active_console_call(t, console)
    \/ vc_set_active_console_check(t)
    \/ vc_set_active_console_lock(t)
    \/ vc_set_active_console_body(t)
    \/ vc_set_active_console_render(t)

vc_set_console_to_active(t) ==
    \/ \E dev \in VC \cup {NULL} :
         /\ IF dev = NULL THEN TRUE
            ELSE (st[dev] = "open" /\ ~InFlight(dev)) \/ st[dev] = "freed"
         /\ vc_set_console_to_active_call(t, dev)
    \/ vc_set_console_to_active_lock(t)
    \/ vc_set_console_to_active_body(t)
    \/ vc_set_console_to_active_render(t)

vc_root_open(t) ==
    \/ vc_root_open_call(t)
    \/ vc_root_open_fail(t)
    \/ vc_root_open_lock(t)
    \/ vc_root_open_add(t)
    \/ vc_root_open_check(t)
    \/ vc_root_open_ret(t)

vc_device_release(t) ==
    \/ \E vc \in VC : vc_device_release_call(t, vc)
    \/ vc_device_release_lock(t)
    \/ vc_device_release_unlink(t)
    \/ vc_device_release_fix(t)
    \/ vc_device_release_free(t)

Next ==
    \E t \in Threads :
        \/ vc_root_open(t)
        \/ vc_device_release(t)
        \/ vc_set_console_to_active(t)
        \/ vc_set_active_console(t)
        \/ vc_device_write(t)
        \/ vc_device_read(t)
        \/ Return(t)

Spec == Init /\ [][Next]_vars

\* ---------------------------------------------------------------- SpecIO
\* Console input and output next to focus changes: at most MaxVCIO consoles;
\* thread InputThread is a keyboard's input thread, with key presses delivered
\* straight to vc_handle_key_press; the other threads are callers of the
\* device operations.
MaxVCIO == 2
InputThread == CHOOSE t \in Threads : \A u \in Threads : t <= u
Callers == Threads \ {InputThread}
\* Key presses: an arrow (3 bytes), Delete (4 bytes) and ALT + F2.
IOEvents == {<<HID_USAGE_KEY_UP, {}>>, <<HID_USAGE_KEY_DELETE, {}>>,
             <<HID_USAGE_KEY_F1 + 1, {"MOD_LALT"}>>}
\* vc_handle_key_press once called.
vc_handle_key_press_called(t) ==
    \/ vc_handle_control_keys(t)
    \/ vc_handle_key_press_ret(t)
    \/ vc_handle_key_press_lock(t)
    \/ vc_handle_key_press_size(t)
    \/ vc_handle_key_press_write(t)
    \/ vc_handle_key_press_signal(t)
    \/ vc_handle_key_press_unlock(t)

vc_handle_key_press(t) ==
    \/ \E e \in IOEvents : vc_handle_key_press_call(t, e[1], e[2], "idle")
    \/ vc_handle_key_press_called(t)

\* vc_root_open while no console was ever opened.
vc_root_open_Kbd(t) ==
    /\ th[t].pc = "idle" => st[1] = "none"
    /\ \/ vc_root_open_call(t)
       \/ vc_root_open_lock(t)
       \/ vc_root_open_add(t)
       \/ vc_root_open_check(t)
       \/ vc_root_open_ret(t)

\* vc_root_open while fewer than MaxVCIO consoles were ever opened.
vc_root_open_IO(t) ==
    /\ th[t].pc = "idle" => st[MaxVCIO] = "none"
    /\ \/ vc_root_open_call(t)
       \/ vc_root_open_lock(t)
       \/ vc_root_open_add(t)
       \/ vc_root_open_check(t)
       \/ vc_root_open_ret(t)

\* vc_set_console_to_active on an open console.
vc_set_console_to_active_IO(t) ==
    \/ \E dev \in VC : st[dev] = "open" /\ vc_set_console_to_active_call(t, dev)
    \/ vc_set_console_to_active_lock(t)
    \/ vc_set_console_to_active_body(t)
    \/ vc_set_console_to_active_render(t)

\* vc_set_active_console as called by vc_root_open and vc_handle_control_keys.
vc_set_active_console_called(t) ==
    \/ vc_set_active_console_check(t)
    \/ vc_set_active_console_lock(t)
    \/ vc_set_active_console_body(t)
    \/ vc_set_active_console_render(t)

NextIO ==
    \/ vc_handle_key_press(InputThread)
    \/ \E t \in Threads : vc_set_active_console_called(t)
    \/ \E t \in Callers :
        \/ vc_root_open_IO(t)
        \/ vc_set_console_to_active_IO(t)
        \/ vc_device_read(t)
        \/ vc_device_write(t)
        \/ Return(t)

SpecIO == Init /\ [][NextIO]_vars

\* --------------------------------------------------------------- SpecKbd
\* The keyboard pipeline: thread InputThread runs vc_input_thread on the
\* reports of KbdReports while a caller opens a console and reads it.
vc_input_thread(t) ==
    \/ vc_input_thread_start(t)
    \/ vc_input_thread_wait(t)
    \/ vc_input_thread_timeout(t)
    \/ vc_input_thread_timeout2(t)
    \/ vc_input_thread_accel(t)
    \/ vc_input_thread_read(t)
    \/ vc_input_thread_repeat(t)

vc_process_kb_report(t) ==
    \/ vc_process_kb_report_press(t)
    \/ vc_process_kb_report_release(t)

NextKbd ==
    \/ vc_input_thread(InputThread)
    \/ vc_process_kb_report(InputThread)
    \/ vc_handle_key_press_called(InputThread)
    \/ \E t \in Threads : vc_set_active_console_called(t)
    \/ \E t \in Callers :
        \/ vc_root_open_Kbd(t)
        \/ vc_device_read(t)
        \/ Return(t)

SpecKbd == Init /\ [][NextKbd]_vars

\* --------------------------------------------------------------- SpecNav
\* Console cycling from the keyboard next to consoles being opened and
\* released: thread InputThread delivers TAB + ALT, with and without SHIFT.
NavEvents == {<<HID_USAGE_KEY_TAB, {"MOD_LALT"}>>,
              <<HID_USAGE_KEY_TAB, {"MOD_LALT", "MOD_LSHIFT"}>>}

vc_handle_key_press_Nav(t) ==
    \/ \E e \in NavEvents : vc_handle_key_press_call(t, e[1], e[2], "idle")
    \/ vc_handle_control_keys(t)
    \/ vc_handle_key_press_ret(t)

NextNav ==
    \/ vc_handle_key_press_Nav(InputThread)
    \/ \E t \in Threads : vc_set_active_console_called(t)
    \/ \E t \in Callers :
        \/ vc_root_open(t)
        \/ vc_device_release(t)
        \/ Return(t)

SpecNav == Init /\ [][NextNav]_vars

\* -------------------------------------------------------------- SpecAnsi
\* hid_key_to_ansi_code applied to every keycode of a uint8_t under every
\* combination of the six modifier flags.
Keycodes == 0..255
ModifierSets == SUBSET (MOD_SHIFT \cup MOD_ALT \cup MOD_CTRL)

InitAnsi ==
    /\ g_vc_list = <<>>
    /\ g_vc_count = 0
    /\ g_active_vc = NULL
    /\ g_active_vc_index = 0
    /\ g_battery_info = NoBatteryInfo
    /\ invy0 = [v \in VC |-> vc_device_rows + 1]
    /\ invy1 = [v \in VC |-> -1]
    /\ g_vc_lock = 0
    /\ st = [v \in VC |-> "none"]
    /\ active = [v \in VC |-> FALSE]
    /\ flags = [v \in VC |-> {}]
    /\ vc_lock = [v \in VC |-> 0]
    /\ fifo_lock = [v \in VC |-> 0]
    /\ fifo = [v \in VC |-> <<>>]
    /\ readable = [v \in VC |-> FALSE]
    /\ \E keycode \in Keycodes, modifiers \in ModifierSets :
         th = [t \in Threads |->
                 IF t = InputThread
                 THEN [IdleThread EXCEPT !.pc = "ansi", !.op = "translate",
                                         !.key = keycode, !.mods = modifiers]
                 ELSE IdleThread]
    /\ ub = "none"

\* line 164: the call of hid_key_to_ansi_code with a buffer of 4 bytes.
hid_key_to_ansi_code_call(t) ==
    /\ At(t, "ansi")
    /\ th' = [th EXCEPT ![t].pc = "ansi_out",
                        ![t].out = hid_key_to_ansi_code(th[t].key, th[t].mods)]
    /\ UNCHANGED <<g_battery_info, invy0, invy1, reg, g_vc_lock, st, active, flags, io, ub>>

NextAnsi == hid_key_to_ansi_code_call(InputThread)

SpecAnsi == InitAnsi /\ [][NextAnsi]_vars

\* ------------------------------------------------------------ battery status
\* The status strings the battery device hands to read(), as character codes;
\* each arrives with its terminating NUL: "e", "error", "c42", "c100", "c0",
\* "67", "5", "100".
BatteryStrings ==
    {<<101>>, <<101, 114, 114, 111, 114>>, <<99, 52, 50>>, <<99, 49, 48, 48>>,
     <<99, 48>>, <<54, 55>>, <<53>>, <<49, 48, 48>>}

\* atoi on the characters of str from position i on: white space is skipped,
\* a sign is taken, and the decimal digits up to the first other character
\* (or the terminating NUL) give the value.
RECURSIVE atoi_digits(_, _, _)
atoi_digits(str, i, acc) ==
    IF i <= Len(str) /\ str[i] >= 48 /\ str[i] <= 57
    THEN atoi_digits(str, i + 1, acc * 10 + (str[i] - 48))
    ELSE acc

RECURSIVE atoi_from(_, _)
atoi_from(str, i) ==
    IF i > Len(str) THEN 0
    ELSE IF str[i] = 32 \/ (str[i] >= 9 /\ str[i] <= 13) THEN atoi_from(str, i + 1)
    ELSE IF str[i] = 45 THEN 0 - atoi_digits(str, i + 1, 0)
    ELSE IF str[i] = 43 THEN atoi_digits(str, i + 1, 0)
    ELSE atoi_digits(str, i, 0)

\* vc_misc_device_added (lines 763-775) starts the poller thread.
vc_battery_poll_thread_start(t) ==
    /\ At(t, "idle")
    /\ th' = [th EXCEPT ![t].pc = "bat_read", ![t].op = "battery"]
    /\ UNCHANGED <<g_battery_info, invy0, invy1, reg, g_vc_lock, st, active, flags, io, ub>>

\* lines 730-739: open the device and read the status string; the thread
\* ends when the device cannot be opened or the read fails.
vc_battery_poll_thread_read(t) ==
    /\ At(t, "bat_read")
    /\ \/ th' = [th EXCEPT ![t] = IdleThread]
       \/ \E s \in BatteryStrings :
            th' = [th EXCEPT ![t].pc = "bat_lock", ![t].str = s]
    /\ UNCHANGED <<g_battery_info, invy0, invy1, reg, g_vc_lock, st, active, flags, io, ub>>

\* line 740
vc_battery_poll_thread_lock(t) ==
    /\ At(t, "bat_lock")
    /\ LockRegistry(t)
    /\ th' = [th EXCEPT ![t].pc = "bat_state"]
    /\ UNCHANGED <<g_battery_info, invy0, invy1, reg, st, active, flags, io, ub>>

\* lines 741-742, 745-746, 749: the assignment to g_battery_info.state.
vc_battery_poll_thread_state(t) ==
    /\ At(t, "bat_state")
    /\ LET str == th[t].str IN
       g_battery_info' =
           [g_battery_info EXCEPT !.state =
               IF str[1] = 101 THEN "ERROR"
               ELSE IF str[1] = 99 THEN "CHARGING"
               ELSE "NOT_CHARGING"]
    /\ th' = [th EXCEPT ![t].pc = "bat_pct"]
    /\ UNCHANGED <<invy0, invy1, reg, g_vc_lock, st, active, flags, io, ub>>

\* lines 743, 747, 750: the assignment to g_battery_info.pct.
vc_battery_poll_thread_pct(t) ==
    /\ At(t, "bat_pct")
    /\ LET str == th[t].str IN
       g_battery_info' =
           [g_battery_info EXCEPT !.pct =
               IF str[1] = 101 THEN -1
               ELSE IF str[1] = 99 THEN atoi_from(str, 2)
               ELSE atoi_from(str, 1)]
    /\ th' = [th EXCEPT ![t].pc = "bat_unlock"]
    /\ UNCHANGED <<invy0, invy1, reg, g_vc_lock, st, active, flags, io, ub>>

\* line 753
vc_battery_poll_thread_unlock(t) ==
    /\ At(t, "bat_unlock")
    /\ g_vc_lock = t
    /\ UnlockRegistry(t)
    /\ th' = [th EXCEPT ![t].pc = "bat_status"]
    /\ UNCHANGED <<g_battery_info, invy0, invy1, reg, st, active, flags, io, ub>>

\* line 754: g_active_vc is read without the lock; with no active console the
\* thread sleeps (line 758) and starts over.
vc_battery_poll_thread_status(t) ==
    /\ At(t, "bat_status")
    /\ th' = [th EXCEPT ![t].pc =
                IF g_active_vc = NULL THEN "bat_read" ELSE "bat_write_status"]
    /\ UNCHANGED <<g_battery_info, invy0, invy1, reg, g_vc_lock, st, active, flags, io, ub>>

\* line 755: vc_device_write_status builds the status line with
\* vc_get_status_line, which takes g_vc_lock (line 390).
vc_battery_poll_thread_write_status(t) ==
    /\ At(t, "bat_write_status")
    /\ LockRegistry(t)
    /\ th' = [th EXCEPT ![t].pc = "bat_write_status_unlock"]
    /\ UNCHANGED <<g_battery_info, invy0, invy1, reg, st, active, flags, io, ub>>

\* line 408, then lines 756-758: redraw the status line, sleep, start over.
vc_battery_poll_thread_write_status_unlock(t) ==
    /\ At(t, "bat_write_status_unlock")
    /\ g_vc_lock = t
    /\ UnlockRegistry(t)
    /\ th' = [th EXCEPT ![t].pc = "bat_read"]
    /\ UNCHANGED <<g_battery_info, invy0, invy1, reg, st, active, flags, io, ub>>

vc_battery_poll_thread(t) ==
    \/ vc_battery_poll_thread_start(t)
    \/ vc_battery_poll_thread_read(t)
    \/ vc_battery_poll_thread_lock(t)
    \/ vc_battery_poll_thread_state(t)
    \/ vc_battery_poll_thread_pct(t)
    \/ vc_battery_poll_thread_unlock(t)
    \/ vc_battery_poll_thread_status(t)
    \/ vc_battery_poll_thread_write_status(t)
    \/ vc_battery_poll_thread_write_status_unlock(t)

\* vc_get_battery_info, line 411
vc_get_battery_info_call(t) ==
    /\ At(t, "idle")
    /\ th' = [th EXCEPT ![t].pc = "gbi_lock", ![t].op = "get_battery_info"]
    /\ UNCHANGED <<g_battery_info, invy0, invy1, reg, g_vc_lock, st, active, flags, io, ub>>

\* vc_get_battery_info that does not take g_vc_lock.
vc_get_battery_info_lock_NoLock(t) ==
    /\ At(t, "gbi_lock")
    /\ th' = [th EXCEPT ![t].pc = "gbi_copy"]
    /\ UNCHANGED <<g_battery_info, invy0, invy1, reg, g_vc_lock, st, active, flags, io, ub>>

\* line 412
vc_get_battery_info_lock(t) ==
    /\ At(t, "gbi_lock")
    /\ LockRegistry(t)
    /\ th' = [th EXCEPT ![t].pc = "gbi_copy"]
    /\ UNCHANGED <<g_battery_info, invy0, invy1, reg, st, active, flags, io, ub>>

\* line 413
vc_get_battery_info_copy(t) ==
    /\ At(t, "gbi_copy")
    /\ th' = [th EXCEPT ![t].pc = "gbi_unlock", ![t].info = g_battery_info]
    /\ UNCHANGED <<g_battery_info, invy0, invy1, reg, g_vc_lock, st, active, flags, io, ub>>

\* line 414
vc_get_battery_info_unlock(t) ==
    /\ At(t, "gbi_unlock")
    /\ IF g_vc_lock = t THEN UnlockRegistry(t) ELSE UNCHANGED g_vc_lock
    /\ th' = Done(t, NO_ERROR)
    /\ UNCHANGED <<g_battery_info, invy0, invy1, reg, st, active, flags, io, ub>>

vc_get_battery_info(t) ==
    \/ vc_get_battery_info_call(t)
    \/ vc_get_battery_info_lock(t)
    \/ vc_get_battery_info_copy(t)
    \/ vc_get_battery_info_unlock(t)

\* ----------------------------------------------------------- SpecBattery
\* The battery poller on one thread; the other threads open the console and
\* ask for the battery status.
BatteryThread == InputThread

NextBattery ==
    \/ vc_battery_poll_thread(BatteryThread)
    \/ \E t \in Callers :
        \/ vc_get_battery_info(t)
        \/ vc_root_open_Kbd(t)
        \/ vc_set_active_console_called(t)
        \/ Return(t)

SpecBattery == Init /\ [][NextBattery]_vars

\* ------------------------------------------------------------- SpecWrite
\* Writes of text that changes rows and of text that changes none, next to
\* consoles being opened and activated.
WriteBatches == {<<7>>, <<65>>, <<7, 65>>}

vc_device_write_Batch(t) ==
    \/ \E dev \in VC, buf \in WriteBatches : vc_device_write_call(t, dev, buf, Len(buf))
    \/ vc_device_write_called(t)

NextWrite ==
    \E t \in Threads :
        \/ vc_root_open_IO(t)
        \/ vc_set_active_console_called(t)
        \/ vc_device_write_Batch(t)
        \/ Return(t)

SpecWrite == Init /\ [][NextWrite]_vars

\* --------------------------------------------------- vc_input_device_added
\* What ioctl_input_get_protocol returns: an error, or the size of the
\* protocol value it stored.
ioctl_input_get_protocol_results == {ERR_INVALID_ARGS, 4}
InputProtocols == {"INPUT_PROTO_NONE", "INPUT_PROTO_KBD", "INPUT_PROTO_MOUSE"}

\* The thread started by thrd_create_with_name(&t, vc_input_thread, fd, ...);
\* one keyboard thread is followed, so a device is added when none is running.
WatcherThread == CHOOSE t \in Callers : \A u \in Callers : t <= u

\* lines 291-295: the watcher reports a new entry; openat fails or succeeds.
vc_input_device_added_call(t) ==
    /\ At(t, "idle")
    /\ th[InputThread].pc = "idle"
    /\ \E opened \in BOOLEAN :
         th' = [th EXCEPT ![t].op = "input_device_added",
                          ![t].pc = IF opened THEN "da_proto" ELSE "done",
                          ![t].fd = IF opened THEN "open" ELSE "none",
                          ![t].ret = NO_ERROR]
    /\ UNCHANGED <<g_battery_info, invy0, invy1, reg, g_vc_lock, st, active, flags, io, ub>>

\* lines 300-306: proto starts as INPUT_PROTO_NONE and is stored by a
\* successful query only; the device is skipped when the query succeeded and
\* reported something other than a keyboard.
vc_input_device_added_proto(t) ==
    /\ At(t, "da_proto")
    /\ \E rc \in ioctl_input_get_protocol_results, device_proto \in InputProtocols :
         LET proto == IF rc > 0 THEN device_proto ELSE "INPUT_PROTO_NONE" IN
         IF rc > 0 /\ proto # "INPUT_PROTO_KBD"
         THEN th' = [th EXCEPT ![t].pc = "done", ![t].rc = rc, ![t].proto = proto,
                               ![t].fd = "closed", ![t].ret = NO_ERROR]
         ELSE th' = [th EXCEPT ![t].pc = "da_create", ![t].rc = rc, ![t].proto = proto]
    /\ UNCHANGED <<g_battery_info, invy0, invy1, reg, g_vc_lock, st, active, flags, io, ub>>

\* lines 309-316: thrd_create_with_name starts vc_input_thread on fd and
\* stores the handle, or fails, leaving the handle as it was; on failure the
\* descriptor is closed.
vc_input_device_added_create(t) ==
    /\ At(t, "da_create")
    /\ \/ \E enabled \in BOOLEAN :
            th' = [th EXCEPT ![t].pc = "da_detach", ![t].thrd = "created",
                             ![InputThread].pc = "kb_wait",
                             ![InputThread].op = "input",
                             ![InputThread].kb =
                                 [KbLocals EXCEPT !.repeat_enabled = enabled]]
       \/ th' = [th EXCEPT ![t].pc = "da_detach", ![t].fd = "closed"]
    /\ UNCHANGED <<g_battery_info, invy0, invy1, reg, g_vc_lock, st, active, flags, io, ub>>

\* lines 317-318: thrd_detach(t), whether or not t was stored.
vc_input_device_added_detach(t) ==
    /\ At(t, "da_detach")
    /\ IF th[t].thrd = "created"
       THEN /\ th' = [Done(t, NO_ERROR) EXCEPT ![t].thrd = "detached"]
            /\ UNCHANGED ub
       ELSE /\ th' = Done(t, NO_ERROR)
            /\ ub' = "uninitialised"
    /\ UNCHANGED <<g_battery_info, invy0, invy1, reg, g_vc_lock, st, active, flags, io>>

vc_input_device_added(t) ==
    \/ vc_input_device_added_call(t)
    \/ vc_input_device_added_proto(t)
    \/ vc_input_device_added_create(t)
    \/ vc_input_device_added_detach(t)

\* ----------------------------------------------------------- SpecHotplug
\* The input watcher adding devices, and the keyboard thread it starts
\* reading reports while no console is open.
NextHotplug ==
    \/ vc_input_device_added(WatcherThread)
    \/ Return(WatcherThread)
    \/ vc_input_thread_wait(InputThread)
    \/ vc_input_thread_read(InputThread)

SpecHotplug == Init /\ [][NextHotplug]_vars

\* -------------------------------------------------------- SpecKeyRelease
\* Key presses dispatched by the keyboard thread after it found a console
\* active (line 251), next to consoles being opened and released: an arrow
\* key, ALT + arrow (scroll) and ALT + F11 (fullscreen).
ReleaseEvents == {<<HID_USAGE_KEY_UP, {}>>, <<HID_USAGE_KEY_UP, {"MOD_LALT"}>>,
                  <<HID_USAGE_KEY_F11, {"MOD_LALT"}>>}

vc_handle_key_press_Dispatched(t) ==
    \/ \E e \in ReleaseEvents :
         g_active_vc # NULL /\ vc_handle_key_press_call(t, e[1], e[2], "idle")
    \/ vc_handle_key_press_called(t)

NextKeyRelease ==
    \/ vc_handle_key_press_Dispatched(InputThread)
    \/ \E t \in Callers :
        \/ vc_root_open_IO(t)
        \/ vc_set_active_console_called(t)
        \/ vc_device_release(t)
        \/ Return(t)

SpecKeyRelease == Init /\ [][NextKeyRelease]_vars

\* ------------------------------------------------------------------ claims
Registered == {g_vc_list[k] : k \in 1..Len(g_vc_list)}
ActiveSet == {v \in Registered : active[v]}
InCall(t, op) == th[t].pc \notin {"idle", "done"} /\ th[t].op = op

\* count == 0 => no instance is active; count > 0 => exactly one instance is
\* Active and 0 <= active_index < count.
RegistryInvariant ==
    IF g_vc_count = 0
    THEN g_active_vc = NULL /\ ActiveSet = {}
    ELSE /\ g_active_vc \in Registered
         /\ ActiveSet = {g_active_vc}
         /\ 0 <= g_active_vc_index /\ g_active_vc_index < g_vc_count

\* C1: in every reachable state, under any interleaving of open, close,
\* set_active and set_active_by_index, the registry invariant holds. Stated
\* here at its weakest: only for the states in which the registry lock is free
\* and no open or close is part-way through.
C1_RegistryInvariant ==
    (g_vc_lock = 0 /\ \A t \in Threads : ~InCall(t, "open") /\ ~InCall(t, "release"))
        => RegistryInvariant

\* Thread t takes the step that leaves pc.
Steps(t, pc) == th[t].pc = pc /\ th'[t].pc # pc

\* Where the replacement of a removed active instance sits: the pre-removal
\* active_index if the remaining list has that position, else the last one.
ReplacementPos(idx0, n) == IF idx0 < n THEN idx0 ELSE n - 1

\* C2: when unregister removes the Active instance and an instance remains,
\* the new Active instance is the one now at the pre-removal active_index in
\* the remaining list if that position exists, otherwise the last remaining
\* one; when no instance remains, no instance is active.
C2_RemovalPolicy ==
    [][\A t \in Threads :
         (Steps(t, "rel_fix") /\ th[t].act0) =>
            IF Len(g_vc_list') = 0
            THEN g_active_vc' = NULL /\ ActiveSet' = {} /\ g_vc_count' = 0
            ELSE LET pos == ReplacementPos(th[t].idx0, Len(g_vc_list')) IN
                 /\ g_active_vc' = g_vc_list'[pos + 1]
                 /\ ActiveSet' = {g_vc_list'[pos + 1]}
                 /\ g_active_vc_index' = pos]_vars

\* The scenario of the claim: [A,B,C] with B active at index 1, B removed,
\* leaving [A,C] with C active at index 1.
C2_Witness ==
    \E t \in Threads :
        /\ th[t].pc = "rel_free" /\ th[t].act0 /\ th[t].idx0 = 1
        /\ Len(g_vc_list) = 2
        /\ g_active_vc = g_vc_list[2] /\ g_active_vc_index = 1
        /\ th[t].dev > g_vc_list[1] /\ th[t].dev < g_vc_list[2]

\* C3: set_active(target) on a registered target makes target Active, the
\* previously Active instance Inactive, clears target's has-pending-input
\* flag, records target's position as active_index and returns success; on a
\* null or unregistered target it returns ArgumentError and leaves the
\* registry unchanged.
C3_SetActive ==
    [][\A t \in Threads :
         /\ Steps(t, "sca_body") =>
              LET dev == th[t].dev IN
              IF dev \in Registered
              THEN /\ g_active_vc' = dev
                   /\ ActiveSet' = {dev}
                   /\ "HASINPUT" \notin flags'[dev]
                   /\ g_active_vc_index' = IndexOf(g_vc_list, dev)
                   /\ g_vc_list'[g_active_vc_index' + 1] = dev
                   /\ th'[t].pc = "sca_render"
              ELSE /\ th'[t].pc = "done" /\ th'[t].ret = ERR_INVALID_ARGS
                   /\ UNCHANGED <<reg, active, flags>>
         /\ Steps(t, "sca_render") => th'[t].pc = "done" /\ th'[t].ret = NO_ERROR
         /\ (Steps(t, "idle") /\ th'[t].op = "set_console_to_active"
                 /\ th'[t].dev = NULL) =>
              /\ th'[t].pc = "done" /\ th'[t].ret = ERR_INVALID_ARGS
              /\ UNCHANGED <<reg, active, flags>>]_vars

\* A set_active that moved the focus from the first instance to the one
\* registered second has returned success.
C3_Witness ==
    \E t \in Threads :
        /\ th[t].pc = "done" /\ th[t].op = "set_console_to_active"
        /\ th[t].ret = NO_ERROR
        /\ Len(g_vc_list) >= 2 /\ th[t].dev = g_vc_list[2]
        /\ g_active_vc = th[t].dev /\ g_active_vc_index = 1
        /\ ~active[g_vc_list[1]]

\* C4: set_active(X) when X is already the Active instance performs no state
\* transition, returns success and triggers no render, for the handle-based
\* entry point (vc_set_console_to_active) and for the index-based one
\* (vc_set_active_console).
C4_AlreadyActiveNoOp ==
    [][\A t \in Threads :
         /\ (Steps(t, "sca_body") /\ th[t].dev = g_active_vc) =>
              /\ th'[t].pc = "done" /\ th'[t].ret = NO_ERROR
              /\ UNCHANGED <<reg, active, flags>>
         /\ (Steps(t, "sac_body")
                 /\ EntryAt(g_vc_list, th[t].console) = g_active_vc) =>
              /\ th'[t].pc # "sac_render"
              /\ th'[t].pc = "done" => th'[t].ret = NO_ERROR
              /\ UNCHANGED <<reg, active, flags>>]_vars

\* C5: set_active_by_index(i) either fails with ArgumentError leaving the
\* registry unchanged (when i >= count) or activates exactly the instance at
\* position i of the registry and records active_index = i, under every
\* interleaving with register and unregister: the instance it activates is
\* always a currently registered one.
C5_SetActiveByIndex ==
    [][\A t \in Threads :
         /\ (Steps(t, "sac_check") /\ th'[t].pc # "sac_lock") =>
              /\ th[t].console >= g_vc_count
              /\ th'[t].pc = "done" => th'[t].ret = ERR_INVALID_ARGS
              /\ UNCHANGED <<reg, active, flags>>
         /\ Steps(t, "sac_body") =>
              /\ th[t].console < Len(g_vc_list)
              /\ g_active_vc' = g_vc_list[th[t].console + 1]
              /\ g_active_vc' \in Registered'
              /\ ActiveSet' = {g_active_vc'}
              /\ g_active_vc_index' = th[t].console]_vars

\* C6: a keystroke write into a console FIFO either enqueues its entire byte
\* sequence or enqueues nothing; with less free space than the sequence is
\* long the FIFO is unchanged.
C6_AtomicKeystrokeWrite ==
    [][\A t \in Threads :
         Steps(t, "kp_write") =>
            LET output == hid_key_to_ansi_code(th[t].key, th[t].mods) IN
            \A v \in VC :
               /\ fifo'[v] = fifo[v] \/ fifo'[v] = fifo[v] \o output
               /\ Len(fifo[v]) + Len(output) > FifoCap => fifo'[v] = fifo[v]]_vars

\* The bytes of q from position k + 1 on.
Drop(q, k) == SubSeq(q, k + 1, Len(q))
Min(a, b) == IF a < b THEN a ELSE b
Max(a, b) == IF a > b THEN a ELSE b

\* C7 as claimed: read(buffer, max) drains up to max bytes under the FIFO lock
\* and returns the number drained; if the FIFO is empty it returns WouldBlock;
\* whenever the FIFO is empty after the read the readability signal is
\* cleared.
C7_ReadAsClaimed ==
    [][\A t \in Threads :
         Steps(t, "r_body") =>
            LET vc == th[t].dev
                drained == Min(th[t].n, Len(fifo[vc]))
            IN
            /\ fifo_lock[vc] = t
            /\ fifo'[vc] = Drop(fifo[vc], drained)
            /\ th'[t].ret = IF Len(fifo[vc]) = 0 THEN ERR_SHOULD_WAIT ELSE drained
            /\ Len(fifo'[vc]) = 0 => ~readable'[vc]]_vars

\* C7 amended: read drains up to max bytes under the FIFO lock; it returns the
\* number drained when that is at least one and WouldBlock whenever it
\* drained nothing (the FIFO was empty, or max was 0); whenever the FIFO is
\* empty after the read the readability signal is cleared.
C7_Read ==
    [][\A t \in Threads :
         Steps(t, "r_body") =>
            LET vc == th[t].dev
                drained == Min(th[t].n, Len(fifo[vc]))
            IN
            /\ fifo_lock[vc] = t
            /\ fifo'[vc] = Drop(fifo[vc], drained)
            /\ \A u \in VC \ {vc} : fifo'[u] = fifo[u]
            /\ th'[t].ret = IF drained = 0 THEN ERR_SHOULD_WAIT ELSE drained
            /\ Len(fifo'[vc]) = 0 => ~readable'[vc]]_vars

\* A read with max 0 on a FIFO that holds bytes has returned WouldBlock and
\* left the bytes and the readability signal in place.
C7_Witness ==
    \E t \in Threads :
        /\ th[t].pc = "done" /\ th[t].op = "read" /\ th[t].n = 0
        /\ th[t].ret = ERR_SHOULD_WAIT
        /\ Len(fifo[th[t].dev]) > 0 /\ readable[th[t].dev]

\* The keys the report being processed by thread t shows as down.
KeysDown(t) == th[t].kb.key_state[th[t].kb.cur_idx + 1]
CtrlAltDown(t) ==
    /\ KeysDown(t) \cap {HID_USAGE_KEY_LEFT_CTRL, HID_USAGE_KEY_RIGHT_CTRL} # {}
    /\ KeysDown(t) \cap {HID_USAGE_KEY_LEFT_ALT, HID_USAGE_KEY_RIGHT_ALT} # {}

\* C8: a Delete key press made while CTRL and ALT are held never reaches the
\* ANSI translator: it produces a reboot request and writes no byte to any
\* FIFO, also when CTRL, ALT and Delete first show as pressed in the same
\* keyboard report.
C8_CtrlAltDeleteIntercepted ==
    [][\A t \in Threads :
         (Steps(t, "kp_ctl") /\ th[t].kcont = "kb_press"
              /\ th[t].key = HID_USAGE_KEY_DELETE /\ CtrlAltDown(t)) =>
            /\ th'[t].pc = "kp_ret"
            /\ th'[t].act = "reboot"
            /\ fifo' = fifo]_vars

C10_NoLockWithRegistryLock ==
    \A t \in Threads :
        g_vc_lock = t => \A v \in VC : vc_lock[v] # t /\ fifo_lock[v] # t

RenderPcs == {"sca_render", "sac_render", "rel_free"}

\* C10 amended: in register, set_active, set_active_by_index and unregister
\* the Registry lock is released before the render, and no thread holds the
\* Registry lock together with a FIFO lock; the only thread that holds it
\* together with an instance lock is a writer refreshing the status line,
\* which took the instance lock first and the Registry lock inside
\* vc_get_status_line.
C10_LockOrder ==
    \A t \in Threads :
        g_vc_lock = t =>
            /\ th[t].pc \notin RenderPcs
            /\ \A v \in VC :
                 /\ fifo_lock[v] # t
                 /\ vc_lock[v] = t => (th[t].pc = "w_status_unlock" /\ th[t].dev = v)

\* A writer holds the instance lock and, inside it, the Registry lock.
C10_Witness ==
    \E t \in Threads :
        /\ th[t].pc = "w_status_unlock" /\ g_vc_lock = t
        /\ vc_lock[th[t].dev] = t

\* C11: write(buffer, count) on a console always returns count; a write to an
\* instance that is not the Active one leaves its has-pending-input flag set;
\* a write does not set has-pending-input on the Active instance.
C11_Write ==
    [][\A t \in Threads :
         th[t].op = "write" =>
            /\ (Steps(t, "w_check") /\ ~active[th[t].dev]) =>
                 \/ "HASINPUT" \in flags[th[t].dev]
                 \/ th'[t].pc = "w_set"
            /\ Steps(t, "w_set") =>
                 /\ ~active[th[t].dev]
                 /\ "HASINPUT" \in flags'[th[t].dev]
            /\ Steps(t, "w_unlock") =>
                 th'[t].pc = "done" /\ th'[t].ret = th[t].n
            /\ th'[t].rend = th[t].rend]_vars

\* (k + d) mod count for d = 1 or d = -1.
CycleNext(k, count) == (k + 1) % count
CyclePrev(k, count) == (k + count - 1) % count

\* C12: with count > 0, TAB + ALT without SHIFT moves the active console from
\* index k to (k + 1) mod count and TAB + ALT + SHIFT from k to (k - 1) mod
\* count; the key is never forwarded to the FIFO. The console the key press
\* computes is the wrapped neighbour, the instance then activated is the
\* registered instance at that position, and the key press ends without
\* touching a FIFO.
C12_CycleNavigation ==
    [][\A t \in Threads :
         (th[t].op = "key_press" /\ th[t].key = HID_USAGE_KEY_TAB
              /\ Has(th[t].mods, MOD_ALT)) =>
            /\ (Steps(t, "kp_ctl") /\ g_vc_count > 0
                    /\ g_active_vc_index < g_vc_count) =>
                 /\ th'[t].pc = "sac_check"
                 /\ th'[t].console =
                      IF Has(th[t].mods, MOD_SHIFT)
                      THEN CyclePrev(g_active_vc_index, g_vc_count)
                      ELSE CycleNext(g_active_vc_index, g_vc_count)
            /\ Steps(t, "sac_body") =>
                 /\ th[t].console < Len(g_vc_list)
                 /\ g_active_vc' = g_vc_list[th[t].console + 1]
                 /\ g_active_vc_index' = th[t].console
            /\ th'[t].pc # "kp_lock"
            /\ fifo' = fifo]_vars

\* The fixed special-key table: Enter and Keypad-Enter "\n", Backspace "\b",
\* Tab "\t", Escape 0x1B, Up/Down/Right/Left ESC [ A/B/C/D, Home ESC [ H,
\* End ESC [ F, Delete/PageUp/PageDown ESC [ 3~ / 5~ / 6~.
C13_SpecialKeys ==
    [k \in {HID_USAGE_KEY_ENTER, HID_USAGE_KEY_KP_ENTER, HID_USAGE_KEY_BACKSPACE,
            HID_USAGE_KEY_TAB, HID_USAGE_KEY_ESC, HID_USAGE_KEY_UP,
            HID_USAGE_KEY_DOWN, HID_USAGE_KEY_RIGHT, HID_USAGE_KEY_LEFT,
            HID_USAGE_KEY_HOME, HID_USAGE_KEY_END, HID_USAGE_KEY_DELETE,
            HID_USAGE_KEY_PAGEUP, HID_USAGE_KEY_PAGEDOWN} |->
       IF k = HID_USAGE_KEY_ENTER \/ k = HID_USAGE_KEY_KP_ENTER THEN <<10>>
       ELSE IF k = HID_USAGE_KEY_BACKSPACE THEN <<8>>
       ELSE IF k = HID_USAGE_KEY_TAB THEN <<9>>
       ELSE IF k = HID_USAGE_KEY_ESC THEN <<27>>
       ELSE IF k = HID_USAGE_KEY_UP THEN <<27, 91, 65>>
       ELSE IF k = HID_USAGE_KEY_DOWN THEN <<27, 91, 66>>
       ELSE IF k = HID_USAGE_KEY_RIGHT THEN <<27, 91, 67>>
       ELSE IF k = HID_USAGE_KEY_LEFT THEN <<27, 91, 68>>
       ELSE IF k = HID_USAGE_KEY_HOME THEN <<27, 91, 72>>
       ELSE IF k = HID_USAGE_KEY_END THEN <<27, 91, 70>>
       ELSE IF k = HID_USAGE_KEY_DELETE THEN <<27, 91, 51, 126>>
       ELSE IF k = HID_USAGE_KEY_PAGEUP THEN <<27, 91, 53, 126>>
       ELSE <<27, 91, 54, 126>>]

\* The reference table of the translator.
C13_Reference(keycode, modifiers) ==
    LET shift == modifiers \cap {"MOD_LSHIFT", "MOD_RSHIFT"} # {}
        ctrl == modifiers \cap {"MOD_LCTRL", "MOD_RCTRL"} # {}
        char == hid_map_key(keycode, shift)
    IN  IF char # 0
        THEN IF ctrl /\ shift THEN <<(char - 65 + 1) % 256>>
             ELSE IF ctrl THEN <<(char - 97 + 1) % 256>>
             ELSE <<char>>
        ELSE IF keycode \in DOMAIN C13_SpecialKeys THEN C13_SpecialKeys[keycode]
        ELSE <<>>

\* C13: the translator is a stateless function of (keycode, modifiers,
\* keymap) that returns 0 to 4 bytes, each a byte value, equal to the reference
\* table for every keycode and every modifier state.
C13_TranslatorTable ==
    \A t \in Threads :
        th[t].pc = "ansi_out" =>
            /\ th[t].out = C13_Reference(th[t].key, th[t].mods)
            /\ Len(th[t].out) <= 4
            /\ \A i \in 1..Len(th[t].out) : th[t].out[i] \in 0..255

\* CTRL + SHIFT + 1 gives ('!' - 'A' + 1) mod 256 = 225, and a key outside
\* the keymap and the table gives no byte.
C13_Witness ==
    \E t \in Threads :
        /\ th[t].pc = "ansi_out"
        /\ th[t].key = HID_USAGE_KEY_1
        /\ th[t].mods = {"MOD_LCTRL", "MOD_RSHIFT"}
        /\ th[t].out = <<225>>

\* C14: key-repeat acceleration maps a finite interval I to
\* max(I * 3 / 4, HIGH): a finite interval is always within [HIGH, L], it does
\* not increase across consecutive timeouts, it decreases strictly at every
\* timeout while above HIGH (so it reaches HIGH after finitely many timeouts)
\* and once at HIGH a timeout leaves it there.
C14_RepeatAcceleration ==
    [][\A t \in Threads :
         LET I == th[t].kb.repeat_interval
             J == th'[t].kb.repeat_interval
         IN
         /\ J # MX_TIME_INFINITE =>
              /\ HIGH_REPEAT_KEY_FREQUENCY_MICRO <= J
              /\ J <= LOW_REPEAT_KEY_FREQUENCY_MICRO
         /\ Steps(t, "kb_accel") =>
              /\ I # MX_TIME_INFINITE
              /\ J = Max((I * 3) \div 4, HIGH_REPEAT_KEY_FREQUENCY_MICRO)
              /\ J <= I
              /\ I > HIGH_REPEAT_KEY_FREQUENCY_MICRO => J < I
              /\ I = HIGH_REPEAT_KEY_FREQUENCY_MICRO => J = I]_vars

\* The interval has come down from L to HIGH by timeouts.
C14_Witness ==
    \E t \in Threads :
        /\ th[t].pc = "kb_wait"
        /\ th[t].kb.repeat_interval = HIGH_REPEAT_KEY_FREQUENCY_MICRO

\* The decimal value of a string of digits.
RECURSIVE C15_Decimal(_)
C15_Decimal(digits) ==
    IF digits = <<>> THEN 0
    ELSE 10 * C15_Decimal(SubSeq(digits, 1, Len(digits) - 1))
            + (digits[Len(digits)] - 48)

\* The battery status a status string stands for: 'e' first is an error with
\* percentage -1, 'c' first is charging with the rest as percentage, anything
\* else is not charging with the whole string as percentage.
C15_Classify(str) ==
    IF Head(str) = 101 THEN [state |-> "ERROR", pct |-> -1]
    ELSE IF Head(str) = 99 THEN [state |-> "CHARGING", pct |-> C15_Decimal(Tail(str))]
    ELSE [state |-> "NOT_CHARGING", pct |-> C15_Decimal(str)]

\* C15: the battery poller classifies the status string by its first
\* character and parses the rest as the percentage ("c42" is charging at 42,
\* "e" is error at -1, "67" is not charging at 67); state and percentage are
\* updated together under one lock, so the status vc_get_battery_info copies
\* is never a mix of two updates.
C15_BatteryStatus ==
    /\ C15_Classify(<<99, 52, 50>>) = [state |-> "CHARGING", pct |-> 42]
    /\ C15_Classify(<<101>>) = [state |-> "ERROR", pct |-> -1]
    /\ C15_Classify(<<54, 55>>) = [state |-> "NOT_CHARGING", pct |-> 67]
    /\ \A t \in Threads :
        /\ th[t].pc \in {"bat_status", "bat_write_status", "bat_write_status_unlock"}
              => g_battery_info = C15_Classify(th[t].str)
        /\ th[t].op = "get_battery_info" /\ th[t].pc \in {"gbi_unlock", "done"}
              => th[t].info \in {NoBatteryInfo}
                                  \cup {C15_Classify(str) : str \in BatteryStrings}

\* vc_get_battery_info has returned charging at 42 while the poller is in the
\* middle of the next update, with the state of "67" already stored and the
\* percentage not yet.
C15_Witness ==
    \E t, u \in Threads :
        /\ th[t].op = "get_battery_info" /\ th[t].pc = "done"
        /\ th[t].info = [state |-> "CHARGING", pct |-> 42]
        /\ th[u].pc = "bat_pct" /\ th[u].str = <<54, 55>>
        /\ g_battery_info = [state |-> "NOT_CHARGING", pct |-> 42]

\* C16: after set_active (vc_set_console_to_active) or set_active_by_index
\* (vc_set_active_console) has changed Active and released the lock, the
\* render it issues is of the target it just activated, whatever other
\* set_active and unregister calls run at the same time.
C16_RenderOfTarget ==
    [][\A t \in Threads :
         /\ Steps(t, "sca_render") => th'[t].rend = th[t].dev
         /\ Steps(t, "sac_render") => th'[t].rend = th[t].device]_vars

\* C17: for a key press that is not intercepted, a non-empty output sequence
\* is written all-or-nothing to the FIFO of the active console; exactly when
\* the enqueue succeeds has-pending-input is set and readability is
\* signalled; the flag is marked only if the FIFO was empty beforehand and a
\* sequence was produced, and an empty output or a rejected enqueue leaves
\* flags and readability alone.
C17_KeyPressEnqueue ==
    [][\A t \in Threads :
         LET v == g_active_vc
             output == hid_key_to_ansi_code(th[t].key, th[t].mods)
         IN
         /\ (Steps(t, "kp_size") /\ flags' # flags) =>
              /\ Live(v)
              /\ fifo[v] = <<>> /\ output # <<>>
              /\ flags' = [flags EXCEPT ![v] = @ \cup {"HASINPUT"}]
         /\ Steps(t, "kp_write") =>
              /\ Live(v)
              /\ \A w \in VC \ {v} : fifo'[w] = fifo[w]
              /\ fifo'[v] \in {fifo[v], fifo[v] \o output}
              /\ th'[t].pc = "kp_signal"
                    <=> (output # <<>> /\ fifo'[v] = fifo[v] \o output)
         /\ Steps(t, "kp_signal") =>
              /\ Live(v)
              /\ "HASINPUT" \in flags'[v]
              /\ readable'[v]
         /\ (th[t].pc \in {"kp_lock", "kp_write", "kp_unlock"}
                /\ th'[t].pc # th[t].pc) =>
              flags' = flags /\ readable' = readable]_vars

\* The modifier flags of a set of keys.
ModifiersOf(keys) == UNION {modifiers_from_keycode(k) : k \in keys}

\* C18: within one report the modifier mask is brought up to date for all the
\* newly pressed and all the released modifiers of the report before any
\* newly pressed key of the report is offered to the interceptor or the
\* translator: the mask a key that is not itself a modifier is offered with
\* is the mask after the report.
C18_ModifiersBeforeKeys ==
    [][\A t \in Threads :
         (Steps(t, "kb_press") /\ th'[t].pc = "kp_ctl"
              /\ modifiers_from_keycode(th'[t].key) = {}) =>
            LET kb == th[t].kb
                cur == kb.key_state[kb.cur_idx + 1]
                prev == kb.key_state[kb.prev_idx + 1]
            IN th'[t].mods =
                 (kb.modifiers \cup ModifiersOf(cur \ prev)) \ ModifiersOf(prev \ cur)]_vars

\* C19: after each processed report, with repeat enabled: if the report
\* released any key the repeat interval becomes infinite; else if it newly
\* pressed any key that is not a modifier the interval becomes L; otherwise
\* the interval is unchanged. The keys are those the report shows against the
\* key state before it.
C19_RepeatAfterReport ==
    [][\A t \in Threads :
         (Steps(t, "kb_repeat") /\ th[t].kb.repeat_enabled) =>
            LET kb == th[t].kb
                \* the key states were swapped when the report was processed
                now == kb.key_state[kb.prev_idx + 1]
                before == kb.key_state[kb.cur_idx + 1]
                I == kb.repeat_interval
                J == th'[t].kb.repeat_interval
            IN
            /\ now = hid_kbd_parse_report(kb.report_buf)
            /\ IF before \ now # {} THEN J = MX_TIME_INFINITE
               ELSE IF \E k \in now \ before : modifiers_from_keycode(k) = {}
               THEN J = LOW_REPEAT_KEY_FREQUENCY_MICRO
               ELSE J = I]_vars

\* A report that presses A and releases nothing has set the interval to L,
\* and one that releases a key while pressing another has set it to infinite.
C19_Witness ==
    \E t \in Threads :
        /\ th[t].pc = "kb_wait" /\ th[t].kb.repeat_enabled
        /\ LET kb == th[t].kb
               now == kb.key_state[kb.prev_idx + 1]
               before == kb.key_state[kb.cur_idx + 1]
           IN
           /\ HID_USAGE_KEY_A \in now \ before
           /\ HID_USAGE_KEY_DELETE \in before \ now
           /\ kb.repeat_interval = MX_TIME_INFINITE

\* C20: on a repeat timeout, re-processing the previous two raw reports gives
\* a press event to every key that is not a modifier and is still held (a key
\* pressed in an earlier report and still held when a later report only
\* added a modifier included), and to no key that is not held. The keys held
\* are those of the last report read; when the replay ends (the step from
\* kb_accel) every such key has been dispatched, and every key dispatched
\* during the replay is one of them.
C20_RepeatRegeneratesHeldKeys ==
    [][\A t \in Threads :
         LET kb == th[t].kb
             held == {k \in UNION {hid_kbd_parse_report(r) : r \in Contents(kb.report_buf)} :
                        modifiers_from_keycode(k) = {}}
         IN
         /\ (Steps(t, "kb_press") /\ th'[t].pc = "kp_ctl"
               /\ kb.pcont \in {"kb_timeout2", "kb_accel"}
               /\ modifiers_from_keycode(th'[t].key) = {}) =>
              th'[t].key \in held
         /\ (Steps(t, "kb_timeout2") /\ th'[t].pc = "kb_press") =>
              held \subseteq th'[t].kb.key_delta]_vars

\* C21: in the readable branch of the keyboard thread a read error ends the
\* thread; a short read, and a report read while no console is active, set
\* the repeat interval to infinite and go back to waiting with the key-state
\* snapshots, the modifier mask, the registry and every FIFO unchanged and no
\* key press processed; a report is processed only with a console active.
C21_ReadableBranch ==
    [][\A t \in Threads :
         Steps(t, "kb_read") =>
            /\ th'[t].pc \in {"idle", "kb_wait", "kb_press"}
            /\ th'[t].pc = "idle" => th'[t] = IdleThread
            /\ th'[t].pc = "kb_wait" =>
                 /\ th'[t].kb.repeat_interval = MX_TIME_INFINITE
                 /\ th'[t].kb.key_state = th[t].kb.key_state
                 /\ th'[t].kb.cur_idx = th[t].kb.cur_idx
                 /\ th'[t].kb.prev_idx = th[t].kb.prev_idx
                 /\ th'[t].kb.modifiers = th[t].kb.modifiers
                 /\ UNCHANGED <<reg, active, flags, fifo, readable>>
            /\ th'[t].pc = "kb_press" => g_active_vc # NULL
            /\ g_active_vc = NULL => th'[t].pc # "kb_press"]_vars

\* A report showing the A key was read while no console was active: it was
\* dropped, the key state is still empty and the thread waits without timeout.
C21_Witness ==
    \E t \in Threads :
        /\ th[t].pc = "kb_wait"
        /\ g_active_vc = NULL
        /\ th[t].kb.report_buf # Uninit
        /\ HID_USAGE_KEY_A \in hid_kbd_parse_report(th[t].kb.report_buf)
        /\ th[t].kb.key_state = <<{}, {}>>
        /\ th[t].kb.repeat_interval = MX_TIME_INFINITE

\* The accumulator of instance v is in the empty sentinel state.
AccumulatorEmpty(v) == invy0[v] = vc_device_rows + 1 /\ invy1[v] = -1

\* A write batch is in progress on instance v: its bytes have been fed to the
\* text console and the rows recorded are not flushed yet.
BatchInProgress(v) ==
    \E t \in Threads : th[t].op = "write" /\ th[t].dev = v /\ th[t].pc = "w_flush"

\* C22: the invalidated-rectangle accumulator of every VC instance is in the
\* empty sentinel state whenever no application-text write batch is in
\* progress on that instance: before the first write and again after each
\* write batch has flushed.
C22_AccumulatorEmptyOutsideBatch ==
    \A v \in VC : ~BatchInProgress(v) => AccumulatorEmpty(v)

\* The rows the bytes of a batch change.
BatchRows(str, count) == UNION {putc_rows(str[i]) : i \in 1..count}

\* C22 amended: the accumulator of every VC instance is in the empty sentinel
\* state before the first write and is emptied at the start of each write
\* batch, under the instance lock; after a batch has flushed the accumulator
\* keeps the rows that batch changed until the next batch starts, so outside
\* a batch it is empty only if the last batch changed no row.
C22_AccumulatorEmptiedAtBatchStart ==
    /\ \A v \in VC : AccumulatorEmpty(v)
    /\ [][\A v \in VC :
            (invy0'[v] # invy0[v] \/ invy1'[v] # invy1[v]
                \/ \E t \in Threads : Steps(t, "w_body") /\ th[t].dev = v) =>
               \E t \in Threads :
                  /\ Steps(t, "w_body") /\ th[t].dev = v /\ vc_lock[v] = t
                  /\ LET rows == BatchRows(th[t].str, th[t].n) IN
                     IF rows = {}
                     THEN AccumulatorEmpty(v)'
                     ELSE /\ \A y \in rows : invy0'[v] <= y /\ y < invy1'[v]
                          /\ invy0'[v] \in rows /\ invy1'[v] - 1 \in rows]_vars

\* A write that changed the first row has returned and no write is running on
\* the instance: the accumulator still holds rows 0 to 1.
C22_Witness ==
    \E v \in VC :
        /\ vc_lock[v] = 0 /\ st[v] = "open"
        /\ \A t \in Threads : th[t].op = "write" => th[t].dev # v
        /\ invy0[v] = 0 /\ invy1[v] = 1

\* C23: for each new input-directory entry the watcher spawns a keyboard
\* thread only if the entry opened and its device-class query reports a
\* keyboard; for any other outcome (open failure, non-keyboard class, failed
\* class query) no thread is spawned; when the spawn itself fails the
\* descriptor is closed and no thread handle is used afterwards.
C23_SpawnOnlyForKeyboards ==
    [][\A t \in Threads :
         th[t].op = "input_device_added" =>
            /\ Steps(t, "da_create") =>
                 /\ th[t].fd = "open"
                 /\ th[t].rc > 0
                 /\ th[t].proto = "INPUT_PROTO_KBD"
                 /\ th'[t].thrd # "created" => th'[t].fd = "closed"
            /\ (Steps(t, "da_detach") /\ th[t].thrd # "created") =>
                 /\ th'[t].thrd = th[t].thrd
                 /\ ub' = "none"]_vars

\* The steps of vc_handle_key_press that use g_active_vc: the FIFO path, and
\* the fullscreen and scroll actions of the interceptor.
KeyPressAccess(t) ==
    \/ /\ th[t].pc \in {"kp_lock", "kp_size", "kp_write", "kp_signal", "kp_unlock"}
       /\ th'[t] # th[t] \/ th' = th
    \/ Steps(t, "kp_ctl") /\ th'[t].act \in {"fullscreen", "scroll"}

\* C24: a keyboard thread never uses an absent or already-released console:
\* for every interleaving with unregister and set_active, each access to the
\* active console made while handling a key press refers to an instance that
\* is non-null and currently registered.
C24_KeyPressUsesRegisteredConsole ==
    [][\A t \in Threads :
         KeyPressAccess(t) => g_active_vc # NULL /\ g_active_vc \in Registered]_vars

\* C25: every mutation of a console's FIFO is made by a thread that holds that
\* console's FIFO lock, every FIFO lock is released by the thread that
\* acquired it, and in vc_handle_key_press the instance written and the
\* instance unlocked are the instance that was locked, even if the active
\* console changes in between.
C25_FifoLockDiscipline ==
    [][/\ \A v \in VC :
            fifo'[v] # fifo[v] =>
               fifo_lock[v] \in Threads /\ th'[fifo_lock[v]] # th[fifo_lock[v]]
       /\ \A v \in VC :
            (fifo_lock[v] \in Threads /\ fifo_lock'[v] # fifo_lock[v]) =>
               th'[fifo_lock[v]] # th[fifo_lock[v]]
       /\ \A t \in Threads :
            (Steps(t, "kp_write") \/ Steps(t, "kp_signal") \/ Steps(t, "kp_unlock")) =>
               g_active_vc = th[t].lk]_vars

\* C26: once every activation and every write has completed, the Active
\* instance does not have its has-pending-input flag set, whatever the
\* interleaving of a write on an instance with a set_active of that instance.
C26_ActiveHasNoPendingInput ==
    (/\ ub = "none"
     /\ \A t \in Threads : th[t].pc \in {"idle", "done"}
     /\ g_active_vc \in Registered)
       => "HASINPUT" \notin flags[g_active_vc]

\* With the registry lock free and an instance Active, the active handle is a
\* registered instance, active_index is its position in the list and it is
\* the only registered instance whose active flag is true.
ActiveConsistent ==
    (g_vc_lock = 0 /\ g_active_vc # NULL) =>
        /\ g_active_vc \in Registered
        /\ IndexOf(g_vc_list, g_active_vc) = g_active_vc_index
        /\ ActiveSet = {g_active_vc}

\* Unregistering an instance that is not the Active one keeps the Active
\* instance, activates nothing and leaves active_index at the position the
\* Active instance has in the shortened list.
ReleaseOfNonActive ==
    \A t \in Threads :
        /\ (Steps(t, "rel_unlink") /\ ~active[th[t].dev]) =>
              UNCHANGED <<g_active_vc, active, flags>>
        /\ (Steps(t, "rel_fix") /\ ~th[t].act0 /\ g_active_vc # NULL) =>
              /\ UNCHANGED <<g_active_vc, active, flags>>
              /\ g_active_vc_index' = IndexOf(g_vc_list, g_active_vc)
              /\ g_active_vc_index' < Len(g_vc_list)

\* C27: whenever the registry lock is free and an instance is Active, the
\* active handle points to a registered instance, active_index is that
\* instance's position in the list and it is the only one with its active flag
\* true; unregistering a non-active instance leaves the Active instance
\* unchanged, re-positions active_index and triggers no activation.
C27_ActiveHandleConsistent == []ActiveConsistent /\ [][ReleaseOfNonActive]_vars
====
